---- MODULE Spec2Model ----
(***************************************************************************)
(* JTMD pipeline of markcastorm/JMTD-FINAL:                                 *)
(*   - the extractor          src/jtmd_scraper5.py                          *)
(*   - the orchestrator       src/jpx_master_processor.py                   *)
(*   - the fetcher            src/final.py                                  *)
(* Python dicts are functions over their key set, lists are sequences       *)
(* (index i of the code is index i+1 here), str is STRING.                  *)
(***************************************************************************)
EXTENDS Integers, Sequences, FiniteSets, TLC

VARIABLES
  \* coordinate extraction on one sheet (extract_from_adaptive_coordinates)
  g_pc,            \* "start", "read", then the function that was applied
  data_rows,       \* df.values.tolist(): the raw grid of the 'Value' sheet
  sheet_type,      \* "ETF" or "REIT"
  balance_results, \* category key -> result of find_balance_in_category
  fixed_data,      \* result of extract_fixed_coordinates
  dynamic_data,    \* result of extract_dynamic_balance_coordinates
  adaptive_data    \* result of extract_from_adaptive_coordinates

gridVars == <<g_pc, data_rows, sheet_type, balance_results, fixed_data,
              dynamic_data, adaptive_data>>

VARIABLES
  \* one run of the extractor (AdaptiveJTMDExtractor.run)
  x_pc,                \* "scan", "files", "collected", "csv", "metadata",
                       \* "validated", "returned", "failed", "exited"
  excel_files,         \* scan_input_folder(): the files in the order visited
  file_idx,            \* position of the for loop of process_all_files
  all_data,            \* period -> record (code -> formatted value)
  current_period,      \* <<>> for None, <<period>> otherwise
  current_period_data, \* the record being accumulated
  all_rows,            \* the rows written to JTMD_DATA_<timestamp>.csv
  file_log,            \* file name -> what reading it gave (history)
  data_file,           \* the lines of JTMD_DATA_<timestamp>.csv, <<>> if absent
  metadata_file,       \* the lines of JTMD_META_<timestamp>.csv, <<>> if absent
  zip_file,            \* the member names of JTMD_<timestamp>.zip, <<>> if absent
  validation_passed,   \* <<>> before validate_output, <<result>> after
  x_exit,              \* exit code of the extractor process, Running before
  write_failed         \* whether writing an output file raised (history)

outputVars == <<data_file, metadata_file, zip_file, validation_passed, x_exit,
                write_failed>>

extractVars == <<x_pc, excel_files, file_idx, all_data, current_period,
                 current_period_data, all_rows, file_log, outputVars>>

VARIABLES
  \* one run of the orchestrator (jpx_master_processor.py, main)
  o_pc,                    \* position of the orchestrator
  args,                    \* the command line: mode "all", "month" or "status"
  target_months,           \* config.target_months
  download_retries,        \* config.download_retries
  parse_retries,           \* config.parse_retries
  validation_enabled,      \* config.validation_enabled
  download_script_exists,  \* final.py is in the working directory
  parser_script_exists,    \* jtmd_scraper5.py is in the working directory
  state_file,              \* processing_state.json on disk
  processing_state,        \* month -> phase -> [status]
  month_idx,               \* position of the for loop of process_all_months
  target_month,            \* the month process_single_month works on
  attempt,                 \* loop variable of _run_subprocess_with_retry
  retry_ok,                \* success flag _run_subprocess_with_retry returns
  month_ok,                \* what process_single_month returned
  results,                 \* month -> success, of process_all_months
  successful_months, failed_months,
  exit_code,               \* Running until the process exits
  \* history of the run, read by the properties only
  interrupted,             \* a KeyboardInterrupt arrived
  phase_log,               \* phases started in this process_single_month call
  outcomes,                \* what the environment gave each phase of this call
  writes,                  \* <<phase, status>> recorded in this call
  launches,                \* subprocess launches of the current retry loop
  failures,                \* failed attempts of the current retry loop
  last_wait,               \* seconds slept after the last attempt
  last_outcome,            \* what the last subprocess attempt gave
  calls                    \* <<month, returned>> of every finished call

orchVars == <<o_pc, args, target_months, download_retries, parse_retries,
              validation_enabled, download_script_exists, parser_script_exists,
              state_file, processing_state, month_idx, target_month, attempt,
              retry_ok, month_ok, results, successful_months, failed_months,
              exit_code, interrupted, phase_log, outcomes, writes, launches,
              failures, last_wait, last_outcome, calls>>

VARIABLES
  \* runs of the fetcher (final.py, the main block), one after the other
  f_pc,                 \* position of the fetcher
  f_run,                \* number of runs started so far
  remote,               \* category -> the file links of its archive page
  log_file,             \* jpx_master_download_log.json on disk
  master_download_log,  \* the set of file names, in memory
  initial_log_size,     \* its size when it was loaded
  f_cat,                \* position of the for loop over the categories
  f_links,              \* links of the page still to visit
  driver_open,          \* a Chrome session of the current category is alive
  cat_outcomes,         \* category -> "pending", "ok" or "browser_error"
  f_exit,               \* Running until the run has ended
  \* history of the run, read by the properties only
  loaded_log,           \* the log as this run loaded it
  http_downloads,       \* <<file name, saved>> of every session.get
  prev_clean,           \* the run before this one ended with exit code 0,
                        \* no category aborted and every download saved
  log_writes            \* contents written to the log file during this run

fetchVars == <<f_pc, f_run, remote, log_file, master_download_log,
               initial_log_size, f_cat, f_links, driver_open, cat_outcomes,
               f_exit, loaded_log, http_downloads, prev_clean, log_writes>>

VARIABLES
  \* the two output validations applied to one parser output folder
  v_pc,                 \* "folder", "validate_output", "validate_month_output",
                        \* "done"
  v_folder,             \* what the folder holds (csv: the shape the data
                        \* CSV was written with, <<>> without a data CSV)
  v_output,             \* <<>>, then <<result of validate_output>>
  v_month               \* <<>>, then <<status validate_month_output records>>

validateVars == <<v_pc, v_folder, v_output, v_month>>

VARIABLES
  \* a sequence of _update_month_state calls on one processing_state.json
  s_pc,                 \* "load", then "update"
  s_file,               \* processing_state.json
  s_state,              \* self.processing_state
  s_updates,            \* number of _update_month_state calls made
  s_last                \* the last call: its arguments, the state before it,
                        \* and whether its write succeeded (history)

keepVars == <<s_pc, s_file, s_state, s_updates, s_last>>

vars == <<gridVars, extractVars, orchVars, fetchVars, validateVars, keepVars>>

\* what the steps of one component leave alone
notGrid == <<extractVars, orchVars, fetchVars, validateVars, keepVars>>
notExtract == <<gridVars, orchVars, fetchVars, validateVars, keepVars>>
notOrch == <<gridVars, extractVars, fetchVars, validateVars, keepVars>>
notFetch == <<gridVars, extractVars, orchVars, validateVars, keepVars>>
notValidate == <<gridVars, extractVars, orchVars, fetchVars, keepVars>>
notKeep == <<gridVars, extractVars, orchVars, fetchVars, validateVars>>

(***************************************************************************)
(* Bounds of the model                                                      *)
(***************************************************************************)
\* rows of the largest grid (the real sheets end at row index 60)
MaxRows == 61
\* columns of the widest grid (column G, index 6, is the last one read)
MaxCols == 7
\* spreadsheet files in the input folder of one extractor run
MaxFiles == 3
\* entries of the target-month list of the configuration
MaxMonths == 2
\* largest retry count of the configuration
MaxRetries == 3
\* monthly files linked on the archive page of one category
MaxListed == 2
\* runs of the fetcher, one after the other
MaxRuns == 2
\* data rows of a CSV handed to the output validations
MaxDataRows == 2
\* _update_month_state calls on one state file
MaxUpdates == 3

(***************************************************************************)
(* Python values and string helpers                                         *)
(***************************************************************************)
\* a dict with no key
EmptyDict == [k \in {} |-> ""]

\* d[k] = v on a dict
DictSet(d, k, v) == [x \in (DOMAIN d) \cup {k} |-> IF x = k THEN v ELSE d[x]]

\* {**a, **b} and a.update(b): the keys of b win
DictUpdate(a, b) ==
  [x \in (DOMAIN a) \cup (DOMAIN b) |-> IF x \in DOMAIN b THEN b[x] ELSE a[x]]

\* d.get(k, default)
DictGet(d, k, default) == IF k \in DOMAIN d THEN d[k] ELSE default

\* the one-character string at index i (0-based) of s
CharAt(s, i) == SubSeq(s, i + 1, i + 1)

\* s[i:] of Python
StrFrom(s, i) == SubSeq(s, i + 1, Len(s))

IsSpace(ch) == ch \in {" ", "\t", "\n", "\r"}

RECURSIVE lstrip(_)
lstrip(s) ==
  IF Len(s) > 0 /\ IsSpace(CharAt(s, 0)) THEN lstrip(StrFrom(s, 1)) ELSE s

RECURSIVE rstrip(_)
rstrip(s) ==
  IF Len(s) > 0 /\ IsSpace(CharAt(s, Len(s) - 1))
  THEN rstrip(SubSeq(s, 1, Len(s) - 1))
  ELSE s

\* str.strip()
strip(s) == rstrip(lstrip(s))

\* s.startswith(p)
StartsWith(s, p) == Len(p) <= Len(s) /\ SubSeq(s, 1, Len(p)) = p

\* sub in s
Contains(s, sub) ==
  \E i \in 0..(Len(s) - Len(sub)) : SubSeq(s, i + 1, i + Len(sub)) = sub

LowerCase == "abcdefghijklmnopqrstuvwxyz"
UpperCase == "ABCDEFGHIJKLMNOPQRSTUVWXYZ"

CaseMap(ch, from, to) ==
  IF \E i \in 0..25 : CharAt(from, i) = ch
  THEN CharAt(to, CHOOSE i \in 0..25 : CharAt(from, i) = ch)
  ELSE ch

RECURSIVE MapChars(_, _, _)
MapChars(s, from, to) ==
  IF Len(s) = 0 THEN ""
  ELSE CaseMap(CharAt(s, 0), from, to) \o MapChars(StrFrom(s, 1), from, to)

\* str.upper() and str.lower()
upper(s) == MapChars(s, LowerCase, UpperCase)
lower(s) == MapChars(s, UpperCase, LowerCase)

Digits == "0123456789"
IsDigit(ch) == \E i \in 0..9 : CharAt(Digits, i) = ch

RECURSIVE IntToStr(_)
IntToStr(n) ==
  IF n < 0 THEN "-" \o IntToStr(-n)
  ELSE IF n < 10 THEN CharAt(Digits, n)
  ELSE IntToStr(n \div 10) \o CharAt(Digits, n % 10)

(***************************************************************************)
(* Cell values of a raw grid (pandas, header=None, no coercion)             *)
(***************************************************************************)
NaN == [t |-> "nan", s |-> "", n |-> 0]
NoneCell == [t |-> "None", s |-> "", n |-> 0]
StrCell(text) == [t |-> "str", s |-> text, n |-> 0]
\* a float cell holding the integral value k, e.g. 78.0
FloatCell(k) == [t |-> "float", s |-> "", n |-> k]
IntCell(k) == [t |-> "int", s |-> "", n |-> k]

\* pd.isna(value)
isna(value) == value.t \in {"nan", "None"}

\* str(value)
str(value) ==
  CASE value.t = "str" -> value.s
    [] value.t = "int" -> IntToStr(value.n)
    [] value.t = "float" -> IntToStr(value.n) \o ".0"
    [] value.t = "None" -> "None"
    [] value.t = "nan" -> "nan"

(***************************************************************************)
(* The static tables of the extractor                                       *)
(***************************************************************************)
column_mapping ==
  << [code |-> "JTMD.ETF.BAL.PROP.M", description |-> "ETF, Balance, Proprietary"],
     [code |-> "JTMD.ETF.BAL.BROKER.M", description |-> "ETF, Balance, Brokerage"],
     [code |-> "JTMD.ETF.BAL.TOT.M", description |-> "ETF, Balance, Total"],
     [code |-> "JTMD.ETF.BAL.INST.M", description |-> "ETF, Balance, Institutions"],
     [code |-> "JTMD.ETF.BAL.INDIV.M", description |-> "ETF, Balance, Individuals"],
     [code |-> "JTMD.ETF.BAL.FOR.M", description |-> "ETF, Balance, Foreigners"],
     [code |-> "JTMD.ETF.BAL.SECCOS.M", description |-> "ETF, Balance, Securities Cos."],
     [code |-> "JTMD.ETF.BAL.INVTRUST.M", description |-> "ETF, Balance, Investment Trusts"],
     [code |-> "JTMD.ETF.BAL.BUSCORP.M", description |-> "ETF, Balance, Business Cos."],
     [code |-> "JTMD.ETF.BAL.OTHINST.M", description |-> "ETF, Balance, Other Cos."],
     [code |-> "JTMD.ETF.BAL.INSTFIN.M", description |-> "ETF, Balance, Financial Institutions"],
     [code |-> "JTMD.ETF.BAL.INS.M", description |-> "ETF, Balance, Life/Non-Life Insurance"],
     [code |-> "JTMD.ETF.BAL.BK.M", description |-> "ETF, Balance, Banks"],
     [code |-> "JTMD.ETF.BAL.OTHERFIN.M", description |-> "ETF, Balance, Other Financials"],
     [code |-> "JTMD.ETF.SAL.PROP.M", description |-> "ETF, Sales, Proprietary"],
     [code |-> "JTMD.ETF.SAL.BROKER.M", description |-> "ETF, Sales, Brokerage"],
     [code |-> "JTMD.ETF.SAL.TOT.M", description |-> "ETF, Sales, Total"],
     [code |-> "JTMD.ETF.SAL.INST.M", description |-> "ETF, Sales, Institutions"],
     [code |-> "JTMD.ETF.SAL.INDIV.M", description |-> "ETF, Sales, Individuals"],
     [code |-> "JTMD.ETF.SAL.FOR.M", description |-> "ETF, Sales, Foreigners"],
     [code |-> "JTMD.ETF.SAL.SECCOS.M", description |-> "ETF, Sales, Securities Cos."],
     [code |-> "JTMD.ETF.SAL.INVTRUST.M", description |-> "ETF, Sales, Investment Trusts"],
     [code |-> "JTMD.ETF.SAL.BUSCORP.M", description |-> "ETF, Sales, Business Cos."],
     [code |-> "JTMD.ETF.SAL.OTHINST.M", description |-> "ETF, Sales, Other Cos."],
     [code |-> "JTMD.ETF.SAL.INSTFIN.M", description |-> "ETF, Sales, Financial Institutions"],
     [code |-> "JTMD.ETF.SAL.INS.M", description |-> "ETF, Sales, Life/Non-Life Insurance"],
     [code |-> "JTMD.ETF.SAL.BK.M", description |-> "ETF, Sales, Banks"],
     [code |-> "JTMD.ETF.SAL.OTHERFIN.M", description |-> "ETF, Sales, Other Financials"],
     [code |-> "JTMD.ETF.PURCH.PROP.M", description |-> "ETF, Purchases, Proprietary"],
     [code |-> "JTMD.ETF.PURCH.BROKER.M", description |-> "ETF, Purchases, Brokerage"],
     [code |-> "JTMD.ETF.PURCH.TOT.M", description |-> "ETF, Purchases, Total"],
     [code |-> "JTMD.ETF.PURCH.INST.M", description |-> "ETF, Purchases, Institutions"],
     [code |-> "JTMD.ETF.PURCH.INDIV.M", description |-> "ETF, Purchases, Individuals"],
     [code |-> "JTMD.ETF.PURCH.FOR.M", description |-> "ETF, Purchases, Foreigners"],
     [code |-> "JTMD.ETF.PURCH.SECCOS.M", description |-> "ETF, Purchases, Securities Cos."],
     [code |-> "JTMD.ETF.PURCH.INVTRUST.M", description |-> "ETF, Purchases, Investment Trusts"],
     [code |-> "JTMD.ETF.PURCH.BUSCORP.M", description |-> "ETF, Purchases, Business Cos."],
     [code |-> "JTMD.ETF.PURCH.OTHINST.M", description |-> "ETF, Purchases, Other Cos."],
     [code |-> "JTMD.ETF.PURCH.INSTFIN.M", description |-> "ETF, Purchases, Financial Institutions"],
     [code |-> "JTMD.ETF.PURCH.INS.M", description |-> "ETF, Purchases, Life/Non-Life Insurance"],
     [code |-> "JTMD.ETF.PURCH.BK.M", description |-> "ETF, Purchases, Banks"],
     [code |-> "JTMD.ETF.PURCH.OTHERFIN.M", description |-> "ETF, Purchases, Other Financials"],
     [code |-> "JTMD.REIT.BAL.PROP.M", description |-> "REIT, Balance, Proprietary"],
     [code |-> "JTMD.REIT.BAL.BROKER.M", description |-> "REIT, Balance, Brokerage"],
     [code |-> "JTMD.REIT.BAL.TOT.M", description |-> "REIT, Balance, Total"],
     [code |-> "JTMD.REIT.BAL.INST.M", description |-> "REIT, Balance, Institutions"],
     [code |-> "JTMD.REIT.BAL.INDIV.M", description |-> "REIT, Balance, Individuals"],
     [code |-> "JTMD.REIT.BAL.FOR.M", description |-> "REIT, Balance, Foreigners"],
     [code |-> "JTMD.REIT.BAL.SECCOS.M", description |-> "REIT, Balance, Securities Cos."],
     [code |-> "JTMD.REIT.BAL.INVTRUST.M", description |-> "REIT, Balance, Investment Trusts"],
     [code |-> "JTMD.REIT.BAL.BUSCORP.M", description |-> "REIT, Balance, Business Cos."],
     [code |-> "JTMD.REIT.BAL.OTHINST.M", description |-> "REIT, Balance, Other Cos."],
     [code |-> "JTMD.REIT.BAL.INSTFIN.M", description |-> "REIT, Balance, Financial Institutions"],
     [code |-> "JTMD.REIT.BAL.INS.M", description |-> "REIT, Balance, Life/Non-Life Insurance"],
     [code |-> "JTMD.REIT.BAL.BK.M", description |-> "REIT, Balance, Banks"],
     [code |-> "JTMD.REIT.BAL.OTHERFIN.M", description |-> "REIT, Balance, Other Financials"],
     [code |-> "JTMD.REIT.SAL.PROP.M", description |-> "REIT, Sales, Proprietary"],
     [code |-> "JTMD.REIT.SAL.BROKER.M", description |-> "REIT, Sales, Brokerage"],
     [code |-> "JTMD.REIT.SAL.TOT.M", description |-> "REIT, Sales, Total"],
     [code |-> "JTMD.REIT.SAL.INST.M", description |-> "REIT, Sales, Institutions"],
     [code |-> "JTMD.REIT.SAL.INDIV.M", description |-> "REIT, Sales, Individuals"],
     [code |-> "JTMD.REIT.SAL.FOR.M", description |-> "REIT, Sales, Foreigners"],
     [code |-> "JTMD.REIT.SAL.SECCOS.M", description |-> "REIT, Sales, Securities Cos."],
     [code |-> "JTMD.REIT.SAL.INVTRUST.M", description |-> "REIT, Sales, Investment Trusts"],
     [code |-> "JTMD.REIT.SAL.BUSCORP.M", description |-> "REIT, Sales, Business Cos."],
     [code |-> "JTMD.REIT.SAL.OTHINST.M", description |-> "REIT, Sales, Other Cos."],
     [code |-> "JTMD.REIT.SAL.INSTFIN.M", description |-> "REIT, Sales, Financial Institutions"],
     [code |-> "JTMD.REIT.SAL.INS.M", description |-> "REIT, Sales, Life/Non-Life Insurance"],
     [code |-> "JTMD.REIT.SAL.BK.M", description |-> "REIT, Sales, Banks"],
     [code |-> "JTMD.REIT.SAL.OTHERFIN.M", description |-> "REIT, Sales, Other Financials"],
     [code |-> "JTMD.REIT.PURCH.PROP.M", description |-> "REIT, Purchases, Proprietary"],
     [code |-> "JTMD.REIT.PURCH.BROKER.M", description |-> "REIT, Purchases, Brokerage"],
     [code |-> "JTMD.REIT.PURCH.TOT.M", description |-> "REIT, Purchases, Total"],
     [code |-> "JTMD.REIT.PURCH.INST.M", description |-> "REIT, Purchases, Institutions"],
     [code |-> "JTMD.REIT.PURCH.INDIV.M", description |-> "REIT, Purchases, Individuals"],
     [code |-> "JTMD.REIT.PURCH.FOR.M", description |-> "REIT, Purchases, Foreigners"],
     [code |-> "JTMD.REIT.PURCH.SECCOS.M", description |-> "REIT, Purchases, Securities Cos."],
     [code |-> "JTMD.REIT.PURCH.INVTRUST.M", description |-> "REIT, Purchases, Investment Trusts"],
     [code |-> "JTMD.REIT.PURCH.BUSCORP.M", description |-> "REIT, Purchases, Business Cos."],
     [code |-> "JTMD.REIT.PURCH.OTHINST.M", description |-> "REIT, Purchases, Other Cos."],
     [code |-> "JTMD.REIT.PURCH.INSTFIN.M", description |-> "REIT, Purchases, Financial Institutions"],
     [code |-> "JTMD.REIT.PURCH.INS.M", description |-> "REIT, Purchases, Life/Non-Life Insurance"],
     [code |-> "JTMD.REIT.PURCH.BK.M", description |-> "REIT, Purchases, Banks"],
     [code |-> "JTMD.REIT.PURCH.OTHERFIN.M", description |-> "REIT, Purchases, Other Financials"] >>

category_structure ==
  << [key |-> "PROP", base_row |-> 13, search_offsets |-> <<0, 1, 2>>],
     [key |-> "BROKER", base_row |-> 16, search_offsets |-> <<0, 1, 2>>],
     [key |-> "TOT", base_row |-> 19, search_offsets |-> <<0, 1, 2>>],
     [key |-> "INST", base_row |-> 24, search_offsets |-> <<0, 1, 2>>],
     [key |-> "INDIV", base_row |-> 27, search_offsets |-> <<0, 1, 2>>],
     [key |-> "FOR", base_row |-> 30, search_offsets |-> <<0, 1, 2>>],
     [key |-> "SECCOS", base_row |-> 33, search_offsets |-> <<0, 1, 2>>],
     [key |-> "INVTRUST", base_row |-> 38, search_offsets |-> <<0, 1, 2>>],
     [key |-> "BUSCORP", base_row |-> 41, search_offsets |-> <<0, 1, 2>>],
     [key |-> "OTHINST", base_row |-> 44, search_offsets |-> <<0, 1, 2>>],
     [key |-> "INSTFIN", base_row |-> 47, search_offsets |-> <<0, 1, 2>>],
     [key |-> "INS", base_row |-> 52, search_offsets |-> <<0, 1, 2>>],
     [key |-> "BK", base_row |-> 55, search_offsets |-> <<0, 1, 2>>],
     [key |-> "OTHERFIN", base_row |-> 58, search_offsets |-> <<0, 1, 2>>] >>

fixed_mappings ==
  << [code |-> "JTMD.ETF.SAL.PROP.M", row |-> 13, col |-> 4],
     [code |-> "JTMD.ETF.SAL.BROKER.M", row |-> 16, col |-> 4],
     [code |-> "JTMD.ETF.SAL.TOT.M", row |-> 19, col |-> 4],
     [code |-> "JTMD.ETF.SAL.INST.M", row |-> 24, col |-> 4],
     [code |-> "JTMD.ETF.SAL.INDIV.M", row |-> 27, col |-> 4],
     [code |-> "JTMD.ETF.SAL.FOR.M", row |-> 30, col |-> 4],
     [code |-> "JTMD.ETF.SAL.SECCOS.M", row |-> 33, col |-> 4],
     [code |-> "JTMD.ETF.SAL.INVTRUST.M", row |-> 38, col |-> 4],
     [code |-> "JTMD.ETF.SAL.BUSCORP.M", row |-> 41, col |-> 4],
     [code |-> "JTMD.ETF.SAL.OTHINST.M", row |-> 44, col |-> 4],
     [code |-> "JTMD.ETF.SAL.INSTFIN.M", row |-> 47, col |-> 4],
     [code |-> "JTMD.ETF.SAL.INS.M", row |-> 52, col |-> 4],
     [code |-> "JTMD.ETF.SAL.BK.M", row |-> 55, col |-> 4],
     [code |-> "JTMD.ETF.SAL.OTHERFIN.M", row |-> 58, col |-> 4],
     [code |-> "JTMD.ETF.PURCH.PROP.M", row |-> 14, col |-> 4],
     [code |-> "JTMD.ETF.PURCH.BROKER.M", row |-> 17, col |-> 4],
     [code |-> "JTMD.ETF.PURCH.TOT.M", row |-> 20, col |-> 4],
     [code |-> "JTMD.ETF.PURCH.INST.M", row |-> 25, col |-> 4],
     [code |-> "JTMD.ETF.PURCH.INDIV.M", row |-> 28, col |-> 4],
     [code |-> "JTMD.ETF.PURCH.FOR.M", row |-> 31, col |-> 4],
     [code |-> "JTMD.ETF.PURCH.SECCOS.M", row |-> 34, col |-> 4],
     [code |-> "JTMD.ETF.PURCH.INVTRUST.M", row |-> 39, col |-> 4],
     [code |-> "JTMD.ETF.PURCH.BUSCORP.M", row |-> 42, col |-> 4],
     [code |-> "JTMD.ETF.PURCH.OTHINST.M", row |-> 45, col |-> 4],
     [code |-> "JTMD.ETF.PURCH.INSTFIN.M", row |-> 48, col |-> 4],
     [code |-> "JTMD.ETF.PURCH.INS.M", row |-> 53, col |-> 4],
     [code |-> "JTMD.ETF.PURCH.BK.M", row |-> 56, col |-> 4],
     [code |-> "JTMD.ETF.PURCH.OTHERFIN.M", row |-> 59, col |-> 4],
     [code |-> "JTMD.REIT.SAL.PROP.M", row |-> 13, col |-> 4],
     [code |-> "JTMD.REIT.SAL.BROKER.M", row |-> 16, col |-> 4],
     [code |-> "JTMD.REIT.SAL.TOT.M", row |-> 19, col |-> 4],
     [code |-> "JTMD.REIT.SAL.INST.M", row |-> 24, col |-> 4],
     [code |-> "JTMD.REIT.SAL.INDIV.M", row |-> 27, col |-> 4],
     [code |-> "JTMD.REIT.SAL.FOR.M", row |-> 30, col |-> 4],
     [code |-> "JTMD.REIT.SAL.SECCOS.M", row |-> 33, col |-> 4],
     [code |-> "JTMD.REIT.SAL.INVTRUST.M", row |-> 38, col |-> 4],
     [code |-> "JTMD.REIT.SAL.BUSCORP.M", row |-> 41, col |-> 4],
     [code |-> "JTMD.REIT.SAL.OTHINST.M", row |-> 44, col |-> 4],
     [code |-> "JTMD.REIT.SAL.INSTFIN.M", row |-> 47, col |-> 4],
     [code |-> "JTMD.REIT.SAL.INS.M", row |-> 52, col |-> 4],
     [code |-> "JTMD.REIT.SAL.BK.M", row |-> 55, col |-> 4],
     [code |-> "JTMD.REIT.SAL.OTHERFIN.M", row |-> 58, col |-> 4],
     [code |-> "JTMD.REIT.PURCH.PROP.M", row |-> 14, col |-> 4],
     [code |-> "JTMD.REIT.PURCH.BROKER.M", row |-> 17, col |-> 4],
     [code |-> "JTMD.REIT.PURCH.TOT.M", row |-> 20, col |-> 4],
     [code |-> "JTMD.REIT.PURCH.INST.M", row |-> 25, col |-> 4],
     [code |-> "JTMD.REIT.PURCH.INDIV.M", row |-> 28, col |-> 4],
     [code |-> "JTMD.REIT.PURCH.FOR.M", row |-> 31, col |-> 4],
     [code |-> "JTMD.REIT.PURCH.SECCOS.M", row |-> 34, col |-> 4],
     [code |-> "JTMD.REIT.PURCH.INVTRUST.M", row |-> 39, col |-> 4],
     [code |-> "JTMD.REIT.PURCH.BUSCORP.M", row |-> 42, col |-> 4],
     [code |-> "JTMD.REIT.PURCH.OTHINST.M", row |-> 45, col |-> 4],
     [code |-> "JTMD.REIT.PURCH.INSTFIN.M", row |-> 48, col |-> 4],
     [code |-> "JTMD.REIT.PURCH.INS.M", row |-> 53, col |-> 4],
     [code |-> "JTMD.REIT.PURCH.BK.M", row |-> 56, col |-> 4],
     [code |-> "JTMD.REIT.PURCH.OTHERFIN.M", row |-> 59, col |-> 4] >>

\* list(self.column_mapping.keys())
ColumnCodes == [i \in 1..Len(column_mapping) |-> column_mapping[i].code]

\* list(self.category_structure.keys())
CategoryKeys == [i \in 1..Len(category_structure) |-> category_structure[i].key]

(***************************************************************************)
(* Value formatting and coordinate extraction                               *)
(***************************************************************************)
\* mutant: the formatter without strip(), so a whitespace-only cell counts as
\* a value
preserve_number_formatting_unstripped(value) ==
  IF isna(value) \/ (value.t = "str" /\ value.s = "") \/ value.t = "None"
  THEN ""
  ELSE str(value)

preserve_number_formatting(value) ==
  IF isna(value) \/ (value.t = "str" /\ value.s = "") \/ value.t = "None"
  THEN ""
  ELSE LET str_value == strip(str(value))
       IN  IF str_value = "" THEN ""
           ELSE IF Contains(str_value, ",") THEN str_value
           ELSE str_value

\* Python None, and the truth value of an Optional[Tuple]
None == <<>>

\* mutant: the search goes on after a hit, so the last non-empty candidate wins
RECURSIVE balance_search_last(_, _, _, _)
balance_search_last(rows, category_info, balance_column_code, i) ==
  IF i > Len(category_info.search_offsets) THEN None
  ELSE LET test_row == category_info.base_row + category_info.search_offsets[i]
           in_grid == test_row < Len(rows) /\ Len(rows[test_row + 1]) > 6
           formatted_value ==
             IF in_grid THEN preserve_number_formatting(rows[test_row + 1][6 + 1])
             ELSE ""
           later == balance_search_last(rows, category_info, balance_column_code, i + 1)
       IN  IF later # None THEN later
           ELSE IF in_grid /\ formatted_value # ""
           THEN <<balance_column_code, formatted_value>>
           ELSE None

\* the candidate rows of one category, probed in list order; the first
\* non-empty formatted value returns
RECURSIVE balance_search(_, _, _, _)
balance_search(rows, category_info, balance_column_code, i) ==
  IF i > Len(category_info.search_offsets) THEN None
  ELSE LET test_row == category_info.base_row + category_info.search_offsets[i]
           in_grid == test_row < Len(rows) /\ Len(rows[test_row + 1]) > 6
           formatted_value ==
             IF in_grid THEN preserve_number_formatting(rows[test_row + 1][6 + 1])
             ELSE ""
       IN  IF in_grid /\ formatted_value # ""
           THEN <<balance_column_code, formatted_value>>
           ELSE balance_search(rows, category_info, balance_column_code, i + 1)

\* mutant: the balance value is filed under the category's sales code
find_balance_in_category_as_sales(rows, category_key, stype) ==
  IF ~ \E i \in 1..Len(category_structure) : category_structure[i].key = category_key
  THEN None
  ELSE LET category_info ==
             category_structure[CHOOSE i \in 1..Len(category_structure) :
                                  category_structure[i].key = category_key]
           balance_column_code ==
             "JTMD." \o upper(stype) \o ".SAL." \o category_key \o ".M"
       IN  balance_search(rows, category_info, balance_column_code, 1)

find_balance_in_category(rows, category_key, stype) ==
  IF ~ \E i \in 1..Len(category_structure) : category_structure[i].key = category_key
  THEN None
  ELSE LET category_info ==
             category_structure[CHOOSE i \in 1..Len(category_structure) :
                                  category_structure[i].key = category_key]
           balance_column_code ==
             "JTMD." \o upper(stype) \o ".BAL." \o category_key \o ".M"
       IN  balance_search(rows, category_info, balance_column_code, 1)

\* mutant: the loop ends at the first coordinate that is outside the grid
RECURSIVE fixed_loop_until_outside(_, _, _, _)
fixed_loop_until_outside(rows, prefix, extracted_data, i) ==
  IF i > Len(fixed_mappings) THEN extracted_data
  ELSE LET column_code == fixed_mappings[i].code
           row_idx == fixed_mappings[i].row
           col_idx == fixed_mappings[i].col
           relevant == StartsWith(column_code, prefix)
                       /\ (Contains(column_code, ".SAL.")
                           \/ Contains(column_code, ".PURCH."))
           in_grid == row_idx < Len(rows) /\ col_idx < Len(rows[row_idx + 1])
           formatted_value ==
             IF in_grid
             THEN preserve_number_formatting(rows[row_idx + 1][col_idx + 1])
             ELSE ""
       IN  IF relevant /\ ~in_grid THEN extracted_data
           ELSE IF relevant /\ formatted_value # ""
           THEN fixed_loop_until_outside(rows, prefix,
                           DictSet(extracted_data, column_code, formatted_value),
                           i + 1)
           ELSE fixed_loop_until_outside(rows, prefix, extracted_data, i + 1)

\* the loop over relevant_mappings.items()
RECURSIVE fixed_loop(_, _, _, _)
fixed_loop(rows, prefix, extracted_data, i) ==
  IF i > Len(fixed_mappings) THEN extracted_data
  ELSE LET column_code == fixed_mappings[i].code
           row_idx == fixed_mappings[i].row
           col_idx == fixed_mappings[i].col
           relevant == StartsWith(column_code, prefix)
                       /\ (Contains(column_code, ".SAL.")
                           \/ Contains(column_code, ".PURCH."))
           in_grid == row_idx < Len(rows) /\ col_idx < Len(rows[row_idx + 1])
           formatted_value ==
             IF in_grid
             THEN preserve_number_formatting(rows[row_idx + 1][col_idx + 1])
             ELSE ""
       IN  IF relevant /\ in_grid /\ formatted_value # ""
           THEN fixed_loop(rows, prefix,
                           DictSet(extracted_data, column_code, formatted_value),
                           i + 1)
           ELSE fixed_loop(rows, prefix, extracted_data, i + 1)

\* mutant: the codes are not filtered by the instrument type
extract_fixed_coordinates_any_type(rows, stype) ==
  fixed_loop(rows, "JTMD.", EmptyDict, 1)

extract_fixed_coordinates(rows, stype) ==
  fixed_loop(rows, "JTMD." \o upper(stype), EmptyDict, 1)

\* the loop over the categories
RECURSIVE dynamic_loop(_, _, _, _)
dynamic_loop(rows, stype, extracted_data, i) ==
  IF i > Len(CategoryKeys) THEN extracted_data
  ELSE LET result == find_balance_in_category(rows, CategoryKeys[i], stype)
       IN  IF result # None
           THEN dynamic_loop(rows, stype,
                             DictSet(extracted_data, result[1], result[2]), i + 1)
           ELSE dynamic_loop(rows, stype, extracted_data, i + 1)

extract_dynamic_balance_coordinates(rows, stype) ==
  dynamic_loop(rows, stype, EmptyDict, 1)

extract_from_adaptive_coordinates(rows, stype) ==
  LET fixed == extract_fixed_coordinates(rows, stype)
      dynamic == extract_dynamic_balance_coordinates(rows, stype)
  IN  DictUpdate(fixed, dynamic)

(***************************************************************************)
(* The grids the sheet reader can hand to the extractor                     *)
(***************************************************************************)
\* what column G (index 6) can hold in a candidate row
BalanceCells ==
  {NaN, NoneCell, StrCell(""), StrCell("  "), StrCell(" 1,234 "), FloatCell(78)}

\* the two fillings of column E (index 4): every row empty, or 7,890 / 12 / blank
\* by row index modulo 3
ValueColumns == {<<NaN, NaN, NaN>>, <<StrCell("7,890"), IntCell(12), StrCell(" ")>>}

\* rows x columns of a grid; the pandas grid is rectangular
GridShapes ==
  {<<0, 0>>, <<14, MaxCols>>, <<15, MaxCols>>, <<26, MaxCols>>,
   <<MaxRows, MaxCols - 1>>, <<MaxRows, MaxCols>>}

\* column G repeats pat and column E repeats val with period 3 down the rows;
\* the base rows 13, 24, 38, 52 differ modulo 3, so the categories see pat
\* at different rotations
MakeGrid(shape, pat, val) ==
  [r \in 1..shape[1] |->
     [c \in 1..shape[2] |->
        IF c - 1 = 6 THEN pat[((r - 1) % 3) + 1]
        ELSE IF c - 1 = 4 THEN val[((r - 1) % 3) + 1]
        ELSE IF c - 1 = 0 THEN StrCell("label")
        ELSE NaN]]

Grids ==
  {MakeGrid(shape, pat, val) :
     shape \in GridShapes,
     pat \in [1..3 -> BalanceCells],
     val \in ValueColumns}

SheetTypes == {"ETF", "REIT"}

(***************************************************************************)
(* Coordinate extraction on one sheet                                       *)
(***************************************************************************)
GridInit ==
  /\ g_pc = "start"
  /\ data_rows = <<>>
  /\ sheet_type = "ETF"
  /\ balance_results = EmptyDict
  /\ fixed_data = EmptyDict
  /\ dynamic_data = EmptyDict
  /\ adaptive_data = EmptyDict

\* pd.read_excel(file_path, sheet_name='Value', header=None) and the
\* instrument type taken from the file name
ReadSheet ==
  /\ g_pc = "start"
  /\ \E g \in Grids, st \in SheetTypes :
       /\ data_rows' = g
       /\ sheet_type' = st
  /\ g_pc' = "read"
  /\ UNCHANGED <<balance_results, fixed_data, dynamic_data, adaptive_data>>
  /\ UNCHANGED notGrid

\* find_balance_in_category, applied to every category of the structure
FindBalances ==
  /\ g_pc = "read"
  /\ balance_results' =
       [k \in {CategoryKeys[i] : i \in 1..Len(CategoryKeys)} |->
          find_balance_in_category(data_rows, k, sheet_type)]
  /\ g_pc' = "find_balance_in_category"
  /\ UNCHANGED <<data_rows, sheet_type, fixed_data, dynamic_data, adaptive_data>>
  /\ UNCHANGED notGrid

ExtractFixed ==
  /\ g_pc = "read"
  /\ fixed_data' = extract_fixed_coordinates(data_rows, sheet_type)
  /\ g_pc' = "extract_fixed_coordinates"
  /\ UNCHANGED <<data_rows, sheet_type, balance_results, dynamic_data, adaptive_data>>
  /\ UNCHANGED notGrid

ExtractDynamic ==
  /\ g_pc = "read"
  /\ dynamic_data' = extract_dynamic_balance_coordinates(data_rows, sheet_type)
  /\ g_pc' = "extract_dynamic_balance_coordinates"
  /\ UNCHANGED <<data_rows, sheet_type, balance_results, fixed_data, adaptive_data>>
  /\ UNCHANGED notGrid

ExtractAdaptive ==
  /\ g_pc = "read"
  /\ adaptive_data' = extract_from_adaptive_coordinates(data_rows, sheet_type)
  /\ g_pc' = "extract_from_adaptive_coordinates"
  /\ UNCHANGED <<data_rows, sheet_type, balance_results, fixed_data, dynamic_data>>
  /\ UNCHANGED notGrid

GridNext ==
  \/ ReadSheet
  \/ FindBalances
  \/ ExtractFixed
  \/ ExtractDynamic
  \/ ExtractAdaptive


(***************************************************************************)
(* One extractor run: scan, process_all_files, create_output_csv            *)
(***************************************************************************)
\* s.endswith(suffix)
EndsWith(s, suffix) ==
  Len(suffix) <= Len(s) /\ SubSeq(s, Len(s) - Len(suffix) + 1, Len(s)) = suffix

\* the characters of a period string in code-point order
PeriodChars == "-0123456789"
CharRank(ch) == CHOOSE i \in 0..Len(PeriodChars) :
                  IF \E j \in 0..(Len(PeriodChars) - 1) : CharAt(PeriodChars, j) = ch
                  THEN i < Len(PeriodChars) /\ CharAt(PeriodChars, i) = ch
                  ELSE i = Len(PeriodChars)

\* a < b for Python strings
RECURSIVE StrLess(_, _)
StrLess(a, b) ==
  IF Len(b) = 0 THEN FALSE
  ELSE IF Len(a) = 0 THEN TRUE
  ELSE IF CharAt(a, 0) = CharAt(b, 0) THEN StrLess(StrFrom(a, 1), StrFrom(b, 1))
  ELSE CharRank(CharAt(a, 0)) < CharRank(CharAt(b, 0))

\* sorted(keys)
RECURSIVE sorted(_)
sorted(keys) ==
  IF keys = {} THEN <<>>
  ELSE LET least == CHOOSE k \in keys : \A other \in keys \ {k} : StrLess(k, other)
       IN  <<least>> \o sorted(keys \ {least})

\* the file names an input folder can hold
FileNames == {"etf_m2506.xls", "reit_m2506.xls", "etf_m2507.xls", "REIT_M2507.xlsx"}

\* the orders in which a glob can list the files of a set
ListingOrders(files) ==
  {order \in [1..Cardinality(files) -> files] :
     \A i, j \in 1..Cardinality(files) : i # j => order[i] # order[j]}

\* scan_input_folder: the '*.xls' matches in directory order, then the
\* '*.xlsx' matches in directory order
scan_input_folder(folder) ==
  {xls \o xlsx :
     xls \in ListingOrders({f \in folder : EndsWith(f, ".xls")}),
     xlsx \in ListingOrders({f \in folder : EndsWith(f, ".xlsx")})}

\* datetime.now() as YYYY-MM, for a file name without m<YY><MM>
CurrentPeriod == "2025-08"

\* re.search(r'm(\d{2})(\d{2})', filename.lower()): the leftmost match
extract_period_from_filename(filename) ==
  LET name == lower(filename)
      matches == {i \in 0..(Len(name) - 5) :
                    /\ CharAt(name, i) = "m"
                    /\ \A d \in 1..4 : IsDigit(CharAt(name, i + d))}
  IN  IF matches # {}
      THEN LET at == CHOOSE i \in matches : \A j \in matches : i <= j
               year_suffix == SubSeq(name, at + 2, at + 3)
               month == SubSeq(name, at + 4, at + 5)
           IN  "20" \o year_suffix \o "-" \o month
      ELSE CurrentPeriod

\* the instrument type process_excel_file derives from the file name
sheet_type_of(filename) ==
  IF Contains(lower(filename), "etf") THEN "ETF"
  ELSE IF Contains(lower(filename), "reit") THEN "REIT"
  ELSE "ETF"

\* the 'Value' sheets the files of a run can hold: a full sheet, a sheet with
\* balances only, a sheet cut after row index 14, an empty sheet
FileGrids ==
  << MakeGrid(<<MaxRows, MaxCols>>,
              <<NaN, StrCell(" 1,234 "), FloatCell(78)>>,
              <<StrCell("7,890"), IntCell(12), StrCell(" ")>>),
     MakeGrid(<<MaxRows, MaxCols>>,
              <<FloatCell(78), NaN, StrCell("  ")>>,
              <<NaN, NaN, NaN>>),
     MakeGrid(<<15, MaxCols>>,
              <<StrCell(""), StrCell("56"), NaN>>,
              <<StrCell("7,890"), IntCell(12), StrCell(" ")>>),
     MakeGrid(<<0, 0>>, <<NaN, NaN, NaN>>, <<NaN, NaN, NaN>>) >>

\* what opening and reading one file can give
ReadOutcomes ==
  {[kind |-> "raises", grid |-> 0], [kind |-> "no_value_sheet", grid |-> 0]}
  \cup {[kind |-> "read", grid |-> g] : g \in 1..Len(FileGrids)}

\* the values the run computes from its inputs alone, computed once:
\* the period and instrument type of every file name, and the record of
\* extract_from_adaptive_coordinates for every sheet and instrument type
PeriodOfFile == [f \in FileNames |-> extract_period_from_filename(f)]
SheetTypeOfFile == [f \in FileNames |-> sheet_type_of(f)]
ExtractedFromGrid ==
  [g \in 1..Len(FileGrids), st \in SheetTypes |->
     extract_from_adaptive_coordinates(FileGrids[g], st)]

\* process_excel_file: (period, extracted_data); a raise is handled by the caller
process_excel_file(filename, outcome) ==
  LET period == PeriodOfFile[filename]
      extracted_data ==
        IF outcome.kind = "read"
        THEN DictUpdate(EmptyDict,
                        ExtractedFromGrid[outcome.grid, SheetTypeOfFile[filename]])
        ELSE EmptyDict
  IN  <<period, extracted_data>>

ExtractInit ==
  /\ x_pc = "scan"
  /\ excel_files = <<>>
  /\ file_idx = 1
  /\ all_data = EmptyDict
  /\ current_period = <<>>
  /\ current_period_data = EmptyDict
  /\ all_rows = <<>>
  /\ file_log = EmptyDict
  /\ data_file = <<>>
  /\ metadata_file = <<>>
  /\ zip_file = <<>>
  /\ validation_passed = <<>>
  /\ x_exit = -1
  /\ write_failed = FALSE

\* scan_input_folder over some folder content; no file: process_all_files
\* returns {} at once
ScanInputFolder ==
  /\ x_pc = "scan"
  /\ \E folder \in SUBSET FileNames :
       /\ Cardinality(folder) <= MaxFiles
       /\ \E order \in scan_input_folder(folder) : excel_files' = order
  /\ x_pc' = IF excel_files' = <<>> THEN "failed" ELSE "files"
  /\ UNCHANGED <<file_idx, all_data, current_period, current_period_data,
                 all_rows, file_log, outputVars>>
  /\ UNCHANGED notExtract

\* mutant: a file of the current period replaces the record instead of
\* being merged into it
merge_same_period_replace(period_data, data) == data

\* current_period_data.update(data): same period, ETF + REIT
merge_same_period(period_data, data) == DictUpdate(period_data, data)

\* mutant: a file whose read raises drops the record of the current period
ProcessFile_raise_drops ==
  /\ x_pc = "files"
  /\ file_idx <= Len(excel_files)
  /\ \E outcome \in ReadOutcomes :
       LET file_path == excel_files[file_idx]
           result == process_excel_file(file_path, outcome)
           period == result[1]
           data == result[2]
       IN  /\ file_log' = DictSet(file_log, file_path,
                                  [kind |-> outcome.kind, grid |-> outcome.grid,
                                   period |-> period, data |-> data])
           /\ IF outcome.kind = "raises"
              THEN /\ current_period' = <<>>
                   /\ current_period_data' = EmptyDict
                   /\ UNCHANGED all_data
              ELSE IF data = EmptyDict
              THEN UNCHANGED <<all_data, current_period, current_period_data>>
              ELSE IF current_period = <<>>
              THEN /\ current_period' = <<period>>
                   /\ current_period_data' = data
                   /\ UNCHANGED all_data
              ELSE IF current_period = <<period>>
              THEN /\ current_period_data' = merge_same_period(current_period_data, data)
                   /\ UNCHANGED <<all_data, current_period>>
              ELSE /\ all_data' = DictSet(all_data, current_period[1],
                                          current_period_data)
                   /\ current_period' = <<period>>
                   /\ current_period_data' = data
  /\ file_idx' = file_idx + 1
  /\ UNCHANGED <<x_pc, excel_files, all_rows, outputVars>>
  /\ UNCHANGED notExtract

\* one pass of the for loop of process_all_files
ProcessFile ==
  /\ x_pc = "files"
  /\ file_idx <= Len(excel_files)
  /\ \E outcome \in ReadOutcomes :
       LET file_path == excel_files[file_idx]
           result == process_excel_file(file_path, outcome)
           period == result[1]
           data == result[2]
       IN  /\ file_log' = DictSet(file_log, file_path,
                                  [kind |-> outcome.kind, grid |-> outcome.grid,
                                   period |-> period, data |-> data])
           /\ IF outcome.kind = "raises" \/ data = EmptyDict
              THEN UNCHANGED <<all_data, current_period, current_period_data>>
              ELSE IF current_period = <<>>
              THEN /\ current_period' = <<period>>
                   /\ current_period_data' = data
                   /\ UNCHANGED all_data
              ELSE IF current_period = <<period>>
              THEN /\ current_period_data' = merge_same_period(current_period_data, data)
                   /\ UNCHANGED <<all_data, current_period>>
              ELSE /\ all_data' = DictSet(all_data, current_period[1],
                                          current_period_data)
                   /\ current_period' = <<period>>
                   /\ current_period_data' = data
  /\ file_idx' = file_idx + 1
  /\ UNCHANGED <<x_pc, excel_files, all_rows, outputVars>>
  /\ UNCHANGED notExtract

\* after the loop: the last period is stored and process_all_files returns
FinishFiles ==
  /\ x_pc = "files"
  /\ file_idx > Len(excel_files)
  /\ all_data' =
       IF current_period # <<>> /\ current_period[1] # ""
          /\ current_period_data # EmptyDict
       THEN DictSet(all_data, current_period[1], current_period_data)
       ELSE all_data
  /\ x_pc' = IF all_data' = EmptyDict THEN "failed" ELSE "collected"
  /\ UNCHANGED <<excel_files, file_idx, current_period, current_period_data,
                 all_rows, file_log, outputVars>>
  /\ UNCHANGED notExtract

\* csv.writer (QUOTE_MINIMAL): a field holding the delimiter, the quote
\* character or a line break is quoted, its quotes doubled
RECURSIVE double_quotes(_)
double_quotes(field) ==
  IF field = "" THEN ""
  ELSE LET ch == CharAt(field, 0)
       IN  (IF ch = "\"" THEN "\"\"" ELSE ch) \o double_quotes(StrFrom(field, 1))

needs_quoting(field) ==
  \E i \in 0..(Len(field) - 1) : CharAt(field, i) \in {",", "\"", "\n", "\r"}

csv_field(field) ==
  IF needs_quoting(field) THEN "\"" \o double_quotes(field) \o "\"" ELSE field

\* writer.writerows(rows): one line of text per row, fields joined by commas
\* (the fields lo..hi of the row, joined by halves)
RECURSIVE csv_join(_, _, _)
csv_join(row, lo, hi) ==
  IF lo > hi THEN ""
  ELSE IF lo = hi THEN csv_field(row[lo])
  ELSE LET mid == (lo + hi) \div 2
       IN  csv_join(row, lo, mid) \o "," \o csv_join(row, mid + 1, hi)

\* datetime.now() of the run, as strftime('%Y%m%d') and '%Y-%m-%dT%H:%M:%S'
Timestamp == "20250801"
LastUpdate == "2025-08-01T09:30:00"

metadata_columns ==
  <<"CODE", "DESCRIPTION", "UNIT", "FREQUENCY", "SOURCE", "DATASET",
    "LAST_UPDATE", "NEXT_RELEASE_DATE", "DATA_TYPE", "CATEGORY">>

\* the row of one entry of column_mapping
metadata_row(entry) ==
  <<entry.code, entry.description, "Thousand JPY", "Monthly",
    "Japan Exchange Group (JPX)", "JTMD", LastUpdate, "", "Numeric",
    "Trading Statistics">>

\* metadata_rows: the column names, then one row per item of column_mapping
create_metadata_csv ==
  <<metadata_columns>>
    \o [i \in 1..Len(column_mapping) |-> metadata_row(column_mapping[i])]

\* the two header rows of the data file, the same in every run
header_row_1 == <<"">> \o [i \in 1..Len(column_mapping) |-> column_mapping[i].code]
header_row_2 ==
  <<"">> \o [i \in 1..Len(column_mapping) |-> column_mapping[i].description]

\* the lines of text of the rows every run writes, computed once
HeaderLines ==
  [row \in {header_row_1, header_row_2}
            \cup {create_metadata_csv[i] : i \in 1..Len(create_metadata_csv)} |->
     csv_join(row, 1, Len(row))]

csv_line(row) ==
  IF row \in DOMAIN HeaderLines THEN HeaderLines[row]
  ELSE csv_join(row, 1, Len(row))

csv_lines(rows) == [i \in 1..Len(rows) |-> csv_line(rows[i])]

\* the reader of pd.read_csv on one line: the index at which an unquoted
\* field starting at i ends (the next comma or the end of the line)
RECURSIVE unquoted_end(_, _)
unquoted_end(line, i) ==
  IF i >= Len(line) \/ CharAt(line, i) = "," THEN i
  ELSE unquoted_end(line, i + 1)

\* the index of the quote closing a quoted field whose text starts at i
RECURSIVE quoted_end(_, _)
quoted_end(line, i) ==
  IF i >= Len(line) THEN i
  ELSE IF CharAt(line, i) = "\""
  THEN IF i + 1 < Len(line) /\ CharAt(line, i + 1) = "\""
       THEN quoted_end(line, i + 2)
       ELSE i
  ELSE quoted_end(line, i + 1)

\* the text of a quoted field: a doubled quote stands for one quote
RECURSIVE undouble_quotes(_)
undouble_quotes(text) ==
  IF Len(text) < 2 THEN text
  ELSE IF CharAt(text, 0) = "\"" /\ CharAt(text, 1) = "\""
  THEN "\"" \o undouble_quotes(StrFrom(text, 2))
  ELSE CharAt(text, 0) \o undouble_quotes(StrFrom(text, 1))

\* the field starting at index i of the line, and the index at which it stops
\* (a comma, or the end of the line)
quoted_field(line, i, closing) ==
  [field |-> undouble_quotes(SubSeq(line, i + 2, closing)),
   stop |-> unquoted_end(line, closing + 1)]

unquoted_field(line, i, stop) ==
  [field |-> SubSeq(line, i + 1, stop), stop |-> stop]

field_at(line, i) ==
  IF i < Len(line) /\ CharAt(line, i) = "\""
  THEN quoted_field(line, i, quoted_end(line, i + 1))
  ELSE unquoted_field(line, i, unquoted_end(line, i))

\* a field put in front of the fields read after it
put_field(f, rest) == [fields |-> <<f.field>> \o rest.fields, next |-> rest.next]

\* at most n fields from the field starting at index i on, and the index at
\* which the next field starts (-1 at the end of the line)
RECURSIVE read_block(_, _, _)
read_from_field(line, f, n) ==
  IF f.stop >= Len(line) THEN [fields |-> <<f.field>>, next |-> -1]
  ELSE put_field(f, read_block(line, f.stop + 1, n - 1))

read_block(line, i, n) ==
  IF n = 0 THEN [fields |-> <<>>, next |-> i]
  ELSE read_from_field(line, field_at(line, i), n)

\* the fields of a line from index i on, read ten at a time
RECURSIVE read_fields(_, _)
read_after_block(line, block) ==
  block.fields
    \o (IF block.next = -1 THEN <<>> ELSE read_fields(line, block.next))

read_fields(line, i) == read_after_block(line, read_block(line, i, 10))

\* the fields of these lines, computed once
HeaderFields ==
  [line \in {HeaderLines[row] : row \in DOMAIN HeaderLines} |->
     read_fields(line, 0)]

read_csv_line(line) ==
  IF line \in DOMAIN HeaderFields THEN HeaderFields[line]
  ELSE read_fields(line, 0)

\* the frame of rows of fields: the first row fixes the number of columns, a
\* shorter row is padded with NaN, a longer row raises; an empty field is
\* NaN, written "" here (str(NaN) = 'nan' counts as empty wherever
\* validate_output looks at a cell)
frame_of(rows, width) ==
  IF Len(rows) = 0 \/ \E i \in 1..Len(rows) : Len(rows[i]) > width
  THEN [raised |-> TRUE, rows |-> <<>>, columns |-> 0]
  ELSE [raised |-> FALSE,
        rows |-> [i \in 1..Len(rows) |->
                    [j \in 1..width |->
                       IF j <= Len(rows[i]) THEN rows[i][j] ELSE ""]],
        columns |-> width]

\* the rows read from the lines, each as a tuple of fields
rows_of(file) ==
  [i \in 1..Len(file) |-> SubSeq(read_csv_line(file[i]), 1,
                                 Len(read_csv_line(file[i])))]

width_of(rows) == IF Len(rows) = 0 THEN 0 ELSE Len(rows[1])

frame_of_rows(rows) == frame_of(rows, width_of(rows))

\* pd.read_csv(output_file, header=None)
read_csv(file) == frame_of_rows(SubSeq(rows_of(file), 1, Len(file)))

\* mutant: the row holds only the values the period has, without the empty
\* cells of the codes it lacks
data_row_present_only(period, columns) ==
  LET present == {j \in 2..Len(columns) : columns[j] \in DOMAIN all_data[period]}
      nth(k) == CHOOSE j \in present :
                  Cardinality({x \in present : x < j}) = k - 1
  IN  [k \in 1..(Cardinality(present) + 1) |->
         IF k = 1 THEN period ELSE all_data[period][columns[nth(k - 1)]]]

\* the row create_output_csv writes for one period
data_row(period, columns) ==
  [j \in 1..Len(columns) |->
     IF j = 1 THEN period ELSE DictGet(all_data[period], columns[j], "")]

create_output_csv(data) ==
  LET columns == header_row_1
      periods == sorted(DOMAIN data)
      rows == [i \in 1..Len(periods) |-> data_row(periods[i], columns)]
  IN  <<header_row_1, header_row_2>> \o rows

\* what writing an output file can give: open() or the write raising OSError
\* is caught by the except clause of run
WriteOutcomes == {"written", "os_error"}

DataFileName == "JTMD_DATA_" \o Timestamp \o ".csv"
MetadataFileName == "JTMD_META_" \o Timestamp \o ".csv"

\* the frame of the steps of run after process_all_files
collectVars == <<excel_files, file_idx, all_data, current_period,
                 current_period_data, file_log>>

CreateOutputCsv ==
  /\ x_pc = "collected"
  /\ \E io \in WriteOutcomes :
       /\ IF io = "written"
          THEN /\ all_rows' = create_output_csv(all_data)
               /\ data_file' = csv_lines(all_rows')
               /\ x_pc' = "csv"
          ELSE /\ x_pc' = "failed"
               /\ UNCHANGED <<all_rows, data_file>>
       /\ write_failed' = (io = "os_error")
  /\ UNCHANGED <<collectVars, metadata_file, zip_file, validation_passed, x_exit>>
  /\ UNCHANGED notExtract

\* the text written to the metadata file, the same in every run
MetadataLines == csv_lines(create_metadata_csv)

CreateMetadataCsv ==
  /\ x_pc = "csv"
  /\ \E io \in WriteOutcomes :
       /\ IF io = "written"
          THEN /\ metadata_file' = MetadataLines
               /\ x_pc' = "metadata"
          ELSE /\ x_pc' = "failed"
               /\ UNCHANGED metadata_file
       /\ write_failed' = (io = "os_error")
  /\ UNCHANGED <<collectVars, all_rows, data_file, zip_file, validation_passed,
                 x_exit>>
  /\ UNCHANGED notExtract

\* re.match(r'\d{4}-\d{2}', s): a match at the start of s
matches_period(s) ==
  /\ Len(s) >= 7
  /\ \A i \in {0, 1, 2, 3, 5, 6} : IsDigit(CharAt(s, i))
  /\ CharAt(s, 4) = "-"

\* str(value) of a cell of the frame
cell_str(value) == IF value = "" THEN "nan" ELSE value

\* the checks of validate_output on the frame read from the file
validate_frame(df) ==
  IF df.raised THEN FALSE
  ELSE /\ df.columns = 85
       /\ Len(df.rows) >= 3
       /\ \A i \in 3..Len(df.rows) : matches_period(cell_str(df.rows[i][1]))
       /\ Len(df.rows) > 2
       /\ Cardinality({c \in (3..Len(df.rows)) \X (2..df.columns) :
                         /\ strip(cell_str(df.rows[c[1]][c[2]])) # ""
                         /\ strip(cell_str(df.rows[c[1]][c[2]])) # "nan"}) * 100
            >= 60 * ((Len(df.rows) - 2) * (df.columns - 1))

\* mutant: only the column count and the row count are checked
validate_output_shape_only(file) ==
  /\ ~read_csv(file).raised
  /\ read_csv(file).columns = 85
  /\ Len(read_csv(file).rows) >= 3

\* validate_output: column count, row count, period format and data
\* completeness are checked; the comma statistics are only logged
validate_output(file) == validate_frame(read_csv(file))

\* mutant: a failed validation ends the run without a result
ValidateOutput_fatal ==
  /\ x_pc = "metadata"
  /\ validation_passed' = <<validate_output(data_file)>>
  /\ x_pc' = IF validation_passed'[1] THEN "validated" ELSE "failed"
  /\ UNCHANGED <<collectVars, all_rows, data_file, metadata_file, zip_file, x_exit,
                 write_failed>>
  /\ UNCHANGED notExtract

\* run: the result of validate_output is only logged
ValidateOutput ==
  /\ x_pc = "metadata"
  /\ validation_passed' = <<validate_output(data_file)>>
  /\ x_pc' = "validated"
  /\ UNCHANGED <<collectVars, all_rows, data_file, metadata_file, zip_file, x_exit,
                 write_failed>>
  /\ UNCHANGED notExtract

\* create_zip_archive: the data file and the metadata file under their names
CreateZipArchive ==
  /\ x_pc = "validated"
  /\ \E io \in WriteOutcomes :
       /\ IF io = "written"
          THEN /\ zip_file' = <<DataFileName, MetadataFileName>>
               /\ x_pc' = "returned"
          ELSE /\ x_pc' = "failed"
               /\ UNCHANGED zip_file
       /\ write_failed' = (io = "os_error")
  /\ UNCHANGED <<collectVars, all_rows, data_file, metadata_file,
                 validation_passed, x_exit>>
  /\ UNCHANGED notExtract

\* the value run hands to main: the three paths, or {} on every early return
run_results ==
  IF x_pc = "returned"
  THEN [data_csv |-> DataFileName, metadata_csv |-> MetadataFileName,
        zip_archive |-> "JTMD_" \o Timestamp \o ".zip"]
  ELSE EmptyDict

\* main: exit(1) on an empty result, the interpreter's exit code 0 otherwise
extractor_exit_code(res) == IF res # EmptyDict THEN 0 ELSE 1

ExtractorMain ==
  /\ x_pc \in {"returned", "failed"}
  /\ x_exit' = extractor_exit_code(run_results)
  /\ x_pc' = "exited"
  /\ UNCHANGED <<collectVars, all_rows, data_file, metadata_file, zip_file,
                 validation_passed, write_failed>>
  /\ UNCHANGED notExtract

ExtractNext ==
  \/ ScanInputFolder
  \/ ProcessFile
  \/ FinishFiles
  \/ CreateOutputCsv
  \/ CreateMetadataCsv
  \/ ValidateOutput
  \/ CreateZipArchive
  \/ ExtractorMain

(***************************************************************************)
(* The fetcher as the orchestrator's download subprocess (final.py)         *)
(***************************************************************************)
\* categories_to_scrape, in dict order
Categories == <<"ETFs", "REITs">>

\* what the browser session of one category meets: nothing, or a
\* browser/navigation error (driver setup, page load, element wait)
CategoryOutcomes == {"ok", "browser_error"}

\* process_category: the except clause takes every Exception, the finally
\* clause quits the driver, and the function returns normally
process_category(category_name, outcome) ==
  [category |-> category_name,
   aborted |-> outcome = "browser_error",
   raised |-> FALSE]

\* how the main block ends apart from the categories: normally, with an
\* exception outside process_category, or with a KeyboardInterrupt
FetcherEndings == {"normal", "critical", "interrupt"}

FetcherEnvs == [cats : [1..Len(Categories) -> CategoryOutcomes],
                ending : FetcherEndings]

\* the categories of a fetcher run that a browser error aborted
aborted_categories(env) ==
  {Categories[i] : i \in {j \in 1..Len(Categories) :
                            process_category(Categories[j], env.cats[j]).aborted}}

\* the exit code of the main block
fetcher_exit_code(env) ==
  IF env.ending = "interrupt" THEN 130
  ELSE IF env.ending = "critical"
          \/ \E i \in 1..Len(Categories) :
               process_category(Categories[i], env.cats[i]).raised
  THEN 1
  ELSE 0

(***************************************************************************)
(* The orchestrator (jpx_master_processor.py)                               *)
(***************************************************************************)
Months == {"2025-06", "2025-07"}

\* exit_code while the process runs
Running == -1

\* the command lines: no option, --month YYYY-MM, --status
ArgsSet ==
  {[mode |-> "all", month |-> ""], [mode |-> "status", month |-> ""]}
  \cup {[mode |-> "month", month |-> m] : m \in Months}

\* target_months of the configuration: any list, the empty one included
TargetMonthLists == UNION {[1..n -> Months] : n \in 0..MaxMonths}

RetryCounts == 1..MaxRetries

\* one entry of processing_state[month]; the timestamp and the free-text
\* details play no part in any decision and are left out
Entry(status) == [status |-> status]

\* processing_state.json before the run: absent, unreadable, or left by a
\* run that completed 2025-06
NoStateFile == [exists |-> FALSE, valid |-> FALSE, content |-> EmptyDict]
CorruptStateFile == [exists |-> TRUE, valid |-> FALSE, content |-> EmptyDict]
CompletedStateFile ==
  [exists |-> TRUE, valid |-> TRUE,
   content |-> [m \in {"2025-06"} |->
                  [ph \in {"download", "parsing", "complete"} |->
                     IF ph = "complete" THEN Entry("success")
                     ELSE Entry("completed")]]]
StateFiles == {NoStateFile, CorruptStateFile, CompletedStateFile}

\* _load_processing_state
load_processing_state(file) ==
  IF file.exists /\ file.valid THEN file.content ELSE EmptyDict

\* _save_processing_state
save_processing_state(state) ==
  [exists |-> TRUE, valid |-> TRUE, content |-> state]

\* mutant: the month's record is started afresh at every update
update_month_state_afresh(state, month, phase, status) ==
  DictSet(state, month, DictSet(EmptyDict, phase, Entry(status)))

\* _update_month_state: the new in-memory state
update_month_state(state, month, phase, status) ==
  LET month_data == IF month \in DOMAIN state THEN state[month] ELSE EmptyDict
  IN  DictSet(state, month, DictSet(month_data, phase, Entry(status)))

\* _update_month_state as a step: memory, disk and the history of the call
UpdateMonthState(month, phase, status) ==
  /\ processing_state' = update_month_state(processing_state, month, phase, status)
  /\ state_file' = save_processing_state(processing_state')
  /\ writes' = writes \cup {<<phase, status>>}

\* what one subprocess.run call gives: an exit code, TimeoutExpired, or
\* another exception; aborted names the fetcher's categories that a browser
\* error cut short
NoOutcome == [kind |-> "none", code |-> 0, aborted |-> {}]
Exit(code, aborted) == [kind |-> "exit", code |-> code, aborted |-> aborted]
TimeoutExpired == [kind |-> "timeout", code |-> 0, aborted |-> {}]
LaunchError == [kind |-> "error", code |-> 0, aborted |-> {}]

\* python cannot open a script file that is missing and exits with 2
DownloadOutcomes(script_exists) ==
  {TimeoutExpired, LaunchError}
  \cup (IF script_exists
        THEN {Exit(fetcher_exit_code(env), aborted_categories(env)) :
                env \in FetcherEnvs}
        ELSE {Exit(2, {})})

\* the extractor's main exits with 0, or with 1 when it has no result
ParseOutcomes(script_exists) ==
  {TimeoutExpired, LaunchError}
  \cup (IF script_exists THEN {Exit(0, {}), Exit(1, {})} ELSE {Exit(2, {})})

\* result.returncode == 0
Succeeded(outcome) == outcome.kind = "exit" /\ outcome.code = 0

\* mutant: the same wait after every attempt
wait_time_flat(outcome, k) ==
  IF outcome.kind = "timeout" THEN 60 ELSE 30

\* the sleep after failed attempt number k (0-based) that is not the last
wait_time(outcome, k) ==
  IF outcome.kind = "timeout" THEN (k + 1) * 60
  ELSE IF outcome.kind = "exit" THEN (k + 1) * 30
  ELSE 30

\* a retry loop that would report success once its attempts are used up
run_subprocess_attempt_lenient(outcome, max_retries, here, done) ==
  /\ attempt < max_retries
  /\ launches' = launches + 1
  /\ last_outcome' = outcome
  /\ IF Succeeded(outcome)
     THEN /\ retry_ok' = TRUE
          /\ last_wait' = 0
          /\ o_pc' = done
          /\ UNCHANGED <<attempt, failures>>
     ELSE /\ retry_ok' = (attempt + 1 >= max_retries)
          /\ failures' = failures + 1
          /\ last_wait' = IF attempt < max_retries - 1
                          THEN wait_time(outcome, attempt) ELSE 0
          /\ attempt' = attempt + 1
          /\ o_pc' = IF attempt + 1 < max_retries THEN here ELSE done

\* one pass of the for loop of _run_subprocess_with_retry
run_subprocess_attempt(outcome, max_retries, here, done) ==
  /\ attempt < max_retries
  /\ launches' = launches + 1
  /\ last_outcome' = outcome
  /\ IF Succeeded(outcome)
     THEN /\ retry_ok' = TRUE
          /\ last_wait' = 0
          /\ o_pc' = done
          /\ UNCHANGED <<attempt, failures>>
     ELSE /\ retry_ok' = FALSE
          /\ failures' = failures + 1
          /\ last_wait' = IF attempt < max_retries - 1
                          THEN wait_time(outcome, attempt) ELSE 0
          /\ attempt' = attempt + 1
          /\ o_pc' = IF attempt + 1 < max_retries THEN here ELSE done

\* the exit code main derives from the results of process_all_months
exit_code_of_results_any(res) ==
  IF \E m \in DOMAIN res : res[m] THEN 0 ELSE 1

exit_code_of_results(res) ==
  LET success_count == Cardinality({m \in DOMAIN res : res[m]})
  IN  IF success_count = Cardinality(DOMAIN res) THEN 0
      ELSE IF success_count > 0 THEN 2
      ELSE 1

\* groups of variables, for the frame conditions
cfgVars == <<args, download_retries, parse_retries, validation_enabled,
             download_script_exists, parser_script_exists>>
loopVars == <<month_idx, results, successful_months, failed_months>>
retryVars == <<attempt, retry_ok, launches, failures, last_wait, last_outcome>>
stateVars == <<state_file, processing_state, writes>>

\* _verify_scripts_exist
verify_scripts_exist == download_script_exists /\ parser_script_exists

\* before main runs: nothing is parsed or loaded yet
OrchInit ==
  /\ o_pc = "main"
  /\ args = [mode |-> "all", month |-> ""]
  /\ target_months = <<>>
  /\ download_retries = 1
  /\ parse_retries = 1
  /\ validation_enabled = FALSE
  /\ download_script_exists = TRUE
  /\ parser_script_exists = TRUE
  /\ state_file = NoStateFile
  /\ processing_state = EmptyDict
  /\ month_idx = 1
  /\ target_month = ""
  /\ attempt = 0
  /\ retry_ok = FALSE
  /\ month_ok = FALSE
  /\ results = EmptyDict
  /\ successful_months = <<>>
  /\ failed_months = <<>>
  /\ exit_code = Running
  /\ interrupted = FALSE
  /\ phase_log = <<>>
  /\ outcomes = <<>>
  /\ writes = {}
  /\ launches = 0
  /\ failures = 0
  /\ last_wait = 0
  /\ last_outcome = NoOutcome
  /\ calls = <<>>

\* main up to the mode switch: the command line is parsed, and
\* JPXMasterProcessor(args.config) reads the configuration file, finds the
\* working directory as it is and loads the state file; --month overrides
\* the target-month list
InitProcessor ==
  /\ o_pc = "main"
  /\ args' \in ArgsSet
  /\ download_retries' \in RetryCounts
  /\ parse_retries' \in RetryCounts
  /\ validation_enabled' \in BOOLEAN
  /\ download_script_exists' \in BOOLEAN
  /\ parser_script_exists' \in BOOLEAN
  /\ state_file' \in StateFiles
  /\ processing_state' = load_processing_state(state_file')
  /\ IF args'.mode = "month"
     THEN /\ target_months' = <<args'.month>>
          /\ target_month' = args'.month
          /\ o_pc' = "process_single_month"
     ELSE /\ target_months' \in TargetMonthLists
          /\ UNCHANGED target_month
          /\ o_pc' = IF args'.mode = "status" THEN "status" ELSE "process_all_months"
  /\ UNCHANGED <<loopVars, retryVars, writes, month_ok, exit_code,
                 interrupted, phase_log, outcomes, calls>>
  /\ UNCHANGED notOrch

\* --status: get_processing_summary is printed and main returns
ShowStatus ==
  /\ o_pc = "status"
  /\ exit_code' = 0
  /\ o_pc' = "exited"
  /\ UNCHANGED <<cfgVars, loopVars, retryVars, stateVars, target_months,
                 target_month, month_ok, interrupted, phase_log, outcomes, calls>>
  /\ UNCHANGED notOrch

\* process_all_months up to the for loop: the two guards
ProcessAllMonths ==
  /\ o_pc = "process_all_months"
  /\ IF target_months = <<>> \/ ~verify_scripts_exist
     THEN /\ results' = EmptyDict
          /\ o_pc' = "summary"
          /\ UNCHANGED <<month_idx, target_month>>
     ELSE /\ results' = EmptyDict
          /\ month_idx' = 1
          /\ target_month' = target_months[1]
          /\ o_pc' = "process_single_month"
  /\ UNCHANGED <<cfgVars, retryVars, stateVars, target_months, month_ok,
                 successful_months, failed_months, exit_code, interrupted,
                 phase_log, outcomes, calls>>
  /\ UNCHANGED notOrch

\* the entry of download_data_for_month: the phase is recorded as started
\* and the retry loop begins
download_data_for_month_entry ==
  /\ processing_state' =
       update_month_state(processing_state, target_month, "download", "started")
  /\ state_file' = save_processing_state(processing_state')
  /\ writes' = {<<"download", "started">>}
  /\ phase_log' = <<"download">>
  /\ outcomes' = <<>>
  /\ o_pc' = "download"
  /\ UNCHANGED <<month_ok, calls>>

\* a pipeline that would skip a month the loaded state has as complete/success
DownloadStart_skip_completed ==
  /\ o_pc = "process_single_month"
  /\ IF /\ target_month \in DOMAIN processing_state
        /\ "complete" \in DOMAIN processing_state[target_month]
        /\ processing_state[target_month]["complete"].status = "success"
     THEN /\ month_ok' = TRUE
          /\ calls' = Append(calls, <<target_month, TRUE>>)
          /\ phase_log' = <<>>
          /\ outcomes' = <<>>
          /\ writes' = {}
          /\ o_pc' = "month_done"
          /\ UNCHANGED <<state_file, processing_state>>
     ELSE download_data_for_month_entry
  /\ attempt' = 0
  /\ retry_ok' = FALSE
  /\ launches' = 0
  /\ failures' = 0
  /\ last_wait' = 0
  /\ last_outcome' = NoOutcome
  /\ UNCHANGED <<cfgVars, loopVars, target_months, target_month, exit_code,
                 interrupted>>
  /\ UNCHANGED notOrch

\* process_single_month enters download_data_for_month, whatever the state
\* file held
DownloadStart ==
  /\ o_pc = "process_single_month"
  /\ download_data_for_month_entry
  /\ attempt' = 0
  /\ retry_ok' = FALSE
  /\ launches' = 0
  /\ failures' = 0
  /\ last_wait' = 0
  /\ last_outcome' = NoOutcome
  /\ UNCHANGED <<cfgVars, loopVars, target_months, target_month, exit_code,
                 interrupted>>
  /\ UNCHANGED notOrch

\* mutant: the download phase retries as often as parse_retries says
DownloadAttempt_parse_retries ==
  /\ o_pc = "download"
  /\ \E outcome \in DownloadOutcomes(download_script_exists) :
       run_subprocess_attempt(outcome, parse_retries, "download", "download_done")
  /\ UNCHANGED <<cfgVars, loopVars, stateVars, target_months, target_month,
                 month_ok, exit_code, interrupted, phase_log, outcomes, calls>>
  /\ UNCHANGED notOrch

\* one run of the fetcher under _run_subprocess_with_retry
DownloadAttempt ==
  /\ o_pc = "download"
  /\ \E outcome \in DownloadOutcomes(download_script_exists) :
       run_subprocess_attempt(outcome, download_retries, "download", "download_done")
  /\ UNCHANGED <<cfgVars, loopVars, stateVars, target_months, target_month,
                 month_ok, exit_code, interrupted, phase_log, outcomes, calls>>
  /\ UNCHANGED notOrch

\* process_single_month returns False to its caller
ReturnFalse ==
  /\ month_ok' = FALSE
  /\ calls' = Append(calls, <<target_month, FALSE>>)
  /\ o_pc' = "month_done"

\* mutant: the month goes on to parsing whatever the download gave
DownloadFinish_continue ==
  /\ o_pc = "download_done"
  /\ UpdateMonthState(target_month, "download",
                      IF retry_ok THEN "completed" ELSE "failed")
  /\ o_pc' = "parse"
  /\ outcomes' = Append(outcomes, IF retry_ok THEN "download_ok"
                                   ELSE "download_failed")
  /\ last_outcome' = NoOutcome
  /\ UNCHANGED <<month_ok, calls>>
  /\ UNCHANGED <<cfgVars, loopVars, target_months, target_month, attempt,
                 retry_ok, launches, failures, last_wait, exit_code,
                 interrupted, phase_log>>
  /\ UNCHANGED notOrch

\* download_data_for_month after the retry loop
DownloadFinish ==
  /\ o_pc = "download_done"
  /\ IF retry_ok
     THEN /\ UpdateMonthState(target_month, "download", "completed")
          /\ o_pc' = "parse"
          /\ UNCHANGED <<month_ok, calls>>
     ELSE /\ UpdateMonthState(target_month, "download", "failed")
          /\ ReturnFalse
  /\ outcomes' = Append(outcomes, IF retry_ok THEN "download_ok"
                                   ELSE "download_failed")
  /\ last_outcome' = NoOutcome
  /\ UNCHANGED <<cfgVars, loopVars, target_months, target_month, attempt,
                 retry_ok, launches, failures, last_wait, exit_code,
                 interrupted, phase_log>>
  /\ UNCHANGED notOrch

\* what _prepare_parser_input and the creation of the output directory
\* give: files of the month staged, no file of the month (or an error
\* while copying, which also returns None), or mkdir raising
StagingOutcomes == {"staged", "none", "mkdir_error"}

\* parse_data_for_month up to the retry loop
PrepareParserInput ==
  /\ o_pc = "parse"
  /\ phase_log' = Append(phase_log, "relocation")
  /\ \E staging \in StagingOutcomes :
       LET started == update_month_state(processing_state, target_month,
                                         "parsing", "started")
           status == IF staging = "none" THEN "failed" ELSE "error"
       IN  /\ outcomes' = Append(outcomes, staging)
           /\ IF staging = "staged"
              THEN /\ processing_state' = started
                   /\ writes' = writes \cup {<<"parsing", "started">>}
                   /\ o_pc' = "extract"
                   /\ UNCHANGED <<month_ok, calls>>
              ELSE /\ processing_state' =
                        update_month_state(started, target_month, "parsing", status)
                   /\ writes' = writes \cup {<<"parsing", "started">>,
                                             <<"parsing", status>>}
                   /\ ReturnFalse
  /\ state_file' = save_processing_state(processing_state')
  /\ attempt' = 0
  /\ retry_ok' = FALSE
  /\ launches' = 0
  /\ failures' = 0
  /\ last_wait' = 0
  /\ last_outcome' = NoOutcome
  /\ UNCHANGED <<cfgVars, loopVars, target_months, target_month, exit_code,
                 interrupted>>
  /\ UNCHANGED notOrch

\* one run of the extractor under _run_subprocess_with_retry
ParseAttempt ==
  /\ o_pc = "extract"
  /\ phase_log' = IF launches = 0 THEN Append(phase_log, "extraction")
                  ELSE phase_log
  /\ \E outcome \in ParseOutcomes(parser_script_exists) :
       run_subprocess_attempt(outcome, parse_retries, "extract", "extract_done")
  /\ UNCHANGED <<cfgVars, loopVars, stateVars, target_months, target_month,
                 month_ok, exit_code, interrupted, outcomes, calls>>
  /\ UNCHANGED notOrch

\* parse_data_for_month after the retry loop: the output files are looked up
ParseFinish ==
  /\ o_pc = "extract_done"
  /\ IF retry_ok
     THEN \E csv_and_zip_files \in BOOLEAN :
            IF csv_and_zip_files
            THEN /\ UpdateMonthState(target_month, "parsing", "completed")
                 /\ outcomes' = Append(outcomes, "extract_ok")
                 /\ o_pc' = "validate"
                 /\ UNCHANGED <<month_ok, calls>>
            ELSE /\ UpdateMonthState(target_month, "parsing", "failed")
                 /\ outcomes' = Append(outcomes, "no_output_files")
                 /\ ReturnFalse
     ELSE /\ UpdateMonthState(target_month, "parsing", "failed")
          /\ outcomes' = Append(outcomes, "extract_failed")
          /\ ReturnFalse
  /\ last_outcome' = NoOutcome
  /\ UNCHANGED <<cfgVars, loopVars, target_months, target_month, attempt,
                 retry_ok, launches, failures, last_wait, exit_code,
                 interrupted, phase_log>>
  /\ UNCHANGED notOrch

\* the data CSVs a parser output folder can hold, by shape and content:
\* number of columns, number of data rows, number of filled data cells per
\* row, and the text of the period cell
CsvShapes ==
  [columns : {84, 85, 86}, data_rows : 0..MaxDataRows,
   filled : {0, 42, 50, 51, 84}, period : {"2025-06", "06/2025"}]

\* the rows of the CSV of one shape: the two header rows cut or extended to
\* the number of columns, then the data rows
csv_rows_of(shape) ==
  LET header(row) == [j \in 1..shape.columns |->
                        IF j <= Len(row) THEN row[j] ELSE "EXTRA"]
      data == [j \in 1..shape.columns |->
                 IF j = 1 THEN shape.period
                 ELSE IF j - 1 <= shape.filled THEN "1,234" ELSE ""]
  IN  <<header(header_row_1), header(header_row_2)>>
        \o [i \in 1..shape.data_rows |-> data]

csv_file_of(shape) == csv_lines(csv_rows_of(shape))

\* the issues validate_month_output finds in the first data CSV
csv_issues(df) ==
  IF df.raised THEN {"Could not read CSV file"}
  ELSE (IF df.columns # 85 THEN {"CSV has other than 85 columns"} ELSE {})
       \cup (IF Len(df.rows) < 3 THEN {"CSV has fewer than 3 rows"} ELSE {})

validation_issues(folder) ==
  (IF folder.csv_files = <<>> THEN {"No data CSV files found"}
   ELSE csv_issues(read_csv(folder.csv_files[1])))
  \cup (IF folder.meta_files = 0 THEN {"No metadata CSV files found"} ELSE {})
  \cup (IF folder.zip_files = 0 THEN {"No ZIP archive files found"} ELSE {})

\* validate_month_output past the validation_enabled test, on the content of
\* <month>/parser_output: the status it records
validate_month_output(folder) ==
  IF folder.listing_raises THEN "error"
  ELSE IF validation_issues(folder) # {} THEN "failed"
  ELSE "passed"

\* the folders of a month whose parsing succeeded (a data CSV and a ZIP were
\* found there), by what validate_month_output looks at
ParsedFolders ==
  [listing_raises : BOOLEAN,
   csv : {c \in CsvShapes : c.filled = 84 /\ c.period = "2025-06"},
   meta_files : {0, 1}]

\* the status validate_month_output records for each of them, computed once
MonthValidation ==
  [f \in ParsedFolders |->
     validate_month_output([listing_raises |-> f.listing_raises,
                            csv_files |-> <<csv_file_of(f.csv)>>,
                            meta_files |-> f.meta_files, zip_files |-> 1])]

\* what the checks of validate_month_output find
ValidationOutcomes == {MonthValidation[f] : f \in ParsedFolders}

\* a pipeline in which a validation that did not pass would fail the month
ValidateMonthOutput_fatal ==
  /\ o_pc = "validate"
  /\ phase_log' = Append(phase_log, "validation")
  /\ IF ~validation_enabled
     THEN /\ outcomes' = Append(outcomes, "disabled")
          /\ o_pc' = "complete"
          /\ UNCHANGED <<stateVars, month_ok, calls>>
     ELSE \E status \in ValidationOutcomes :
            /\ outcomes' = Append(outcomes, status)
            /\ UpdateMonthState(target_month, "validation", status)
            /\ IF status = "passed"
               THEN o_pc' = "complete" /\ UNCHANGED <<month_ok, calls>>
               ELSE ReturnFalse
  /\ UNCHANGED <<cfgVars, loopVars, retryVars, target_months, target_month,
                 exit_code, interrupted>>
  /\ UNCHANGED notOrch

\* validate_month_output; its return value is not used by the caller
ValidateMonthOutput ==
  /\ o_pc = "validate"
  /\ phase_log' = Append(phase_log, "validation")
  /\ IF ~validation_enabled
     THEN /\ outcomes' = Append(outcomes, "disabled")
          /\ UNCHANGED stateVars
     ELSE \E status \in ValidationOutcomes :
            /\ outcomes' = Append(outcomes, status)
            /\ UpdateMonthState(target_month, "validation", status)
  /\ o_pc' = "complete"
  /\ UNCHANGED <<cfgVars, loopVars, retryVars, target_months, target_month,
                 month_ok, exit_code, interrupted, calls>>
  /\ UNCHANGED notOrch

\* process_single_month records the final state and returns True
CompleteMonth ==
  /\ o_pc = "complete"
  /\ UpdateMonthState(target_month, "complete", "success")
  /\ month_ok' = TRUE
  /\ calls' = Append(calls, <<target_month, TRUE>>)
  /\ o_pc' = "month_done"
  /\ UNCHANGED <<cfgVars, loopVars, retryVars, target_months, target_month,
                 exit_code, interrupted, phase_log, outcomes>>
  /\ UNCHANGED notOrch

\* --month: main exits on the result of process_single_month
ExitSingleMonth ==
  /\ o_pc = "month_done"
  /\ args.mode = "month"
  /\ exit_code' = IF month_ok THEN 0 ELSE 1
  /\ o_pc' = "exited"
  /\ UNCHANGED <<cfgVars, loopVars, retryVars, stateVars, target_months,
                 target_month, month_ok, interrupted, phase_log, outcomes, calls>>
  /\ UNCHANGED notOrch

\* a loop that would stop at the first month that failed
after_month_stop_on_failure(ok) ==
  IF ~ok THEN "summary"
  ELSE IF target_month # target_months[Len(target_months)] THEN "pause"
  ELSE IF month_idx < Len(target_months) THEN "process_single_month"
  ELSE "summary"

\* where the for loop of process_all_months goes after a month returned ok:
\* the pause before the next month, the next month, or the end of the loop
after_month(ok) ==
  IF target_month # target_months[Len(target_months)] THEN "pause"
  ELSE IF month_idx < Len(target_months) THEN "process_single_month"
  ELSE "summary"

\* the for loop of process_all_months after process_single_month returned
RecordMonthResult ==
  /\ o_pc = "month_done"
  /\ args.mode = "all"
  /\ results' = DictSet(results, target_month, month_ok)
  /\ IF month_ok
     THEN /\ successful_months' = Append(successful_months, target_month)
          /\ UNCHANGED failed_months
     ELSE /\ failed_months' = Append(failed_months, target_month)
          /\ UNCHANGED successful_months
  /\ o_pc' = after_month(month_ok)
  /\ IF o_pc' = "process_single_month"
     THEN /\ month_idx' = month_idx + 1
          /\ target_month' = target_months[month_idx + 1]
     ELSE UNCHANGED <<month_idx, target_month>>
  /\ UNCHANGED <<cfgVars, retryVars, stateVars, target_months, month_ok,
                 exit_code, interrupted, phase_log, outcomes, calls>>
  /\ UNCHANGED notOrch

\* the pause between two months is over
NextMonth ==
  /\ o_pc = "pause"
  /\ month_idx' = month_idx + 1
  /\ target_month' = target_months[month_idx + 1]
  /\ o_pc' = "process_single_month"
  /\ UNCHANGED <<cfgVars, retryVars, stateVars, target_months, month_ok,
                 results, successful_months, failed_months, exit_code,
                 interrupted, phase_log, outcomes, calls>>
  /\ UNCHANGED notOrch

\* main after process_all_months returned
ExitAllMonths ==
  /\ o_pc = "summary"
  /\ exit_code' = exit_code_of_results(results)
  /\ o_pc' = "exited"
  /\ UNCHANGED <<cfgVars, loopVars, retryVars, stateVars, target_months,
                 target_month, month_ok, interrupted, phase_log, outcomes, calls>>
  /\ UNCHANGED notOrch

\* positions inside the try block of the for loop of process_all_months
InMonthLoop == {"process_single_month", "download", "download_done", "parse",
                "extract", "extract_done", "validate", "complete",
                "month_done", "pause"}

\* Ctrl-C: inside the for loop of process_all_months the loop's handler
\* marks the month failed and breaks; anywhere else main's handler exits
KeyboardInterrupt ==
  /\ o_pc # "exited"
  /\ interrupted' = TRUE
  /\ IF args.mode = "all" /\ o_pc \in InMonthLoop
     THEN /\ results' = DictSet(results, target_month, FALSE)
          /\ o_pc' = "summary"
          /\ UNCHANGED exit_code
     ELSE /\ exit_code' = 130
          /\ o_pc' = "exited"
          /\ UNCHANGED results
  /\ UNCHANGED <<cfgVars, retryVars, stateVars, target_months, target_month,
                 month_ok, month_idx, successful_months, failed_months,
                 phase_log, outcomes, calls>>
  /\ UNCHANGED notOrch

Next ==
  \/ InitProcessor
  \/ ShowStatus
  \/ ProcessAllMonths
  \/ DownloadStart
  \/ DownloadAttempt
  \/ DownloadFinish
  \/ PrepareParserInput
  \/ ParseAttempt
  \/ ParseFinish
  \/ ValidateMonthOutput
  \/ CompleteMonth
  \/ ExitSingleMonth
  \/ RecordMonthResult
  \/ NextMonth
  \/ ExitAllMonths
  \/ KeyboardInterrupt

(***************************************************************************)
(* The fetcher step by step (final.py)                                      *)
(***************************************************************************)
\* the file_id of each category, in the order of Categories
FileFilters == <<"etf_m", "reit_m">>

\* the months whose files an archive page can link, as they appear in the
\* file names
MonthCodes == <<"2506", "2507", "2508", "2509">>

file_name(file_filter, k) == file_filter \o MonthCodes[k] \o ".xls"

\* the Excel links of the archive page of category i: its own first n
\* monthly files, and one link that belongs to the other category
Page(i, n) ==
  [k \in 1..n |-> file_name(FileFilters[i], k)]
  \o <<file_name(FileFilters[Len(FileFilters) + 1 - i], 1)>>

Listings ==
  {[i \in 1..Len(Categories) |-> Page(i, n[i])] :
     n \in [1..Len(Categories) -> 0..MaxListed]}

\* jpx_master_download_log.json before the first run: absent, not JSON,
\* empty, or naming one file
NoLogFile == [exists |-> FALSE, valid |-> FALSE, content |-> {}]
CorruptLogFile == [exists |-> TRUE, valid |-> FALSE, content |-> {}]
LogFileOf(names) == [exists |-> TRUE, valid |-> TRUE, content |-> names]
InitialLogFiles ==
  {NoLogFile, CorruptLogFile, LogFileOf({}), LogFileOf({file_name("etf_m", 1)})}

\* a loader that would forget what the file holds
load_download_log_fresh(file) ==
  IF ~file.exists THEN [raised |-> FALSE, log |-> {}]
  ELSE IF ~file.valid THEN [raised |-> TRUE, log |-> {}]
  ELSE [raised |-> FALSE, log |-> {}]

\* load_download_log: only FileNotFoundError is caught
load_download_log(file) ==
  IF ~file.exists THEN [raised |-> FALSE, log |-> {}]
  ELSE IF ~file.valid THEN [raised |-> TRUE, log |-> {}]
  ELSE [raised |-> FALSE, log |-> file.content]

\* mutant: only the names this run added are written
save_download_log_additions(downloaded_files_set) ==
  LogFileOf(downloaded_files_set \ loaded_log)

\* save_download_log
save_download_log(downloaded_files_set) == LogFileOf(downloaded_files_set)

NoCategoryOutcome == [i \in 1..Len(Categories) |-> "pending"]

FetchInit ==
  /\ f_pc = "idle"
  /\ f_run = 0
  /\ remote = [i \in 1..Len(Categories) |-> <<>>]
  /\ log_file = NoLogFile
  /\ master_download_log = {}
  /\ initial_log_size = 0
  /\ f_cat = 1
  /\ f_links = <<>>
  /\ driver_open = FALSE
  /\ cat_outcomes = NoCategoryOutcome
  /\ f_exit = Running
  /\ loaded_log = {}
  /\ http_downloads = <<>>
  /\ prev_clean = FALSE
  /\ log_writes = <<>>

\* the run ends with the exit code of the main block
end_run(cats, ending) ==
  /\ f_exit' = fetcher_exit_code([cats |-> cats, ending |-> ending])
  /\ f_pc' = "exited"

\* the main block up to the loop over the categories; the first run finds
\* the remote listing and the log file as they are
StartFetcher ==
  /\ f_pc = "idle"
  /\ f_run' = f_run + 1
  /\ IF f_run = 0
     THEN remote' \in Listings /\ log_file' \in InitialLogFiles
     ELSE UNCHANGED <<remote, log_file>>
  /\ LET loaded == load_download_log(log_file')
     IN  /\ master_download_log' = loaded.log
         /\ initial_log_size' = Cardinality(loaded.log)
         /\ loaded_log' = loaded.log
         /\ IF loaded.raised THEN end_run(cat_outcomes, "critical")
            ELSE f_pc' = "category" /\ UNCHANGED f_exit
  /\ UNCHANGED <<f_cat, f_links, driver_open, cat_outcomes, http_downloads,
                 prev_clean, log_writes>>
  /\ UNCHANGED notFetch

\* a main block that a browser error of one category would end
leave_category_abort_run(outcome) ==
  /\ cat_outcomes' = [cat_outcomes EXCEPT ![f_cat] = outcome]
  /\ driver_open' = FALSE
  /\ f_links' = <<>>
  /\ IF outcome = "browser_error"
     THEN end_run(cat_outcomes', "critical") /\ UNCHANGED f_cat
     ELSE /\ UNCHANGED f_exit
          /\ IF f_cat < Len(Categories)
             THEN f_cat' = f_cat + 1 /\ f_pc' = "category"
             ELSE f_pc' = "finish" /\ UNCHANGED f_cat

\* process_category returns: the driver is quit in the finally clause and
\* the loop of the main block goes to the next category
leave_category(outcome) ==
  /\ cat_outcomes' = [cat_outcomes EXCEPT ![f_cat] = outcome]
  /\ driver_open' = FALSE
  /\ f_links' = <<>>
  /\ IF process_category(Categories[f_cat], outcome).raised
     THEN end_run(cat_outcomes', "critical") /\ UNCHANGED f_cat
     ELSE /\ UNCHANGED f_exit
          /\ IF f_cat < Len(Categories)
             THEN f_cat' = f_cat + 1 /\ f_pc' = "category"
             ELSE f_pc' = "finish" /\ UNCHANGED f_cat

\* process_category up to the loop over the links: driver setup,
\* navigation and the parse of the archive page
OpenCategory ==
  /\ f_pc = "category"
  /\ \E browser \in CategoryOutcomes :
       IF browser = "ok"
       THEN /\ driver_open' = TRUE
            /\ f_links' = remote[f_cat]
            /\ f_pc' = "files"
            /\ UNCHANGED <<f_cat, cat_outcomes, f_exit>>
       ELSE leave_category("browser_error")
  /\ UNCHANGED <<f_run, prev_clean, remote, log_file, master_download_log,
                 initial_log_size, loaded_log, http_downloads, log_writes>>
  /\ UNCHANGED notFetch

\* what the visit of one link that is to be downloaded meets: the file is
\* saved, download_file catches a network error, or another exception
\* (browser, file system) leaves the loop
DownloadOutcomesOfFile == {"saved", "network_error", "browser_error"}

\* mutant: the pass does not look the file name up in the log
VisitLink_unlogged ==
  /\ f_pc = "files"
  /\ f_links # <<>>
  /\ LET name == Head(f_links)
     IN  IF ~Contains(name, FileFilters[f_cat])
         THEN /\ f_links' = Tail(f_links)
              /\ UNCHANGED <<master_download_log, http_downloads, f_pc, f_cat,
                             driver_open, cat_outcomes, f_exit>>
         ELSE \E outcome \in DownloadOutcomesOfFile :
                IF outcome = "browser_error"
                THEN /\ leave_category("browser_error")
                     /\ UNCHANGED <<master_download_log, http_downloads>>
                ELSE /\ http_downloads' =
                          Append(http_downloads, <<name, outcome = "saved">>)
                     /\ master_download_log' =
                          IF outcome = "saved"
                          THEN master_download_log \cup {name}
                          ELSE master_download_log
                     /\ f_links' = Tail(f_links)
                     /\ UNCHANGED <<f_pc, f_cat, driver_open, cat_outcomes,
                                    f_exit>>
  /\ UNCHANGED <<f_run, prev_clean, remote, log_file, initial_log_size, loaded_log,
                 log_writes>>
  /\ UNCHANGED notFetch

\* one pass of the loop over the links of the page
VisitLink ==
  /\ f_pc = "files"
  /\ f_links # <<>>
  /\ LET name == Head(f_links)
     IN  IF ~Contains(name, FileFilters[f_cat]) \/ name \in master_download_log
         THEN /\ f_links' = Tail(f_links)
              /\ UNCHANGED <<master_download_log, http_downloads, f_pc, f_cat,
                             driver_open, cat_outcomes, f_exit>>
         ELSE \E outcome \in DownloadOutcomesOfFile :
                IF outcome = "browser_error"
                THEN /\ leave_category("browser_error")
                     /\ UNCHANGED <<master_download_log, http_downloads>>
                ELSE /\ http_downloads' =
                          Append(http_downloads, <<name, outcome = "saved">>)
                     /\ master_download_log' =
                          IF outcome = "saved"
                          THEN master_download_log \cup {name}
                          ELSE master_download_log
                     /\ f_links' = Tail(f_links)
                     /\ UNCHANGED <<f_pc, f_cat, driver_open, cat_outcomes,
                                    f_exit>>
  /\ UNCHANGED <<f_run, prev_clean, remote, log_file, initial_log_size, loaded_log,
                 log_writes>>
  /\ UNCHANGED notFetch

\* the loop over the links is over: process_category returns
CloseCategory ==
  /\ f_pc = "files"
  /\ f_links = <<>>
  /\ leave_category("ok")
  /\ UNCHANGED <<f_run, prev_clean, remote, log_file, master_download_log,
                 initial_log_size, loaded_log, http_downloads, log_writes>>
  /\ UNCHANGED notFetch

\* the main block after the loop: the log is saved if it grew, exit 0
FinishFetcher ==
  /\ f_pc = "finish"
  /\ IF Cardinality(master_download_log) > initial_log_size
     THEN /\ log_file' = save_download_log(master_download_log)
          /\ log_writes' = Append(log_writes, master_download_log)
     ELSE UNCHANGED <<log_file, log_writes>>
  /\ UNCHANGED cat_outcomes
  /\ end_run(cat_outcomes, "normal")
  /\ UNCHANGED <<f_run, prev_clean, remote, master_download_log, initial_log_size, f_cat,
                 f_links, driver_open, loaded_log, http_downloads>>
  /\ UNCHANGED notFetch

\* Ctrl-C or SIGINT while the categories are processed: the finally clause
\* quits the driver, the main block exits with 130
FetcherInterrupt ==
  /\ f_pc \in {"category", "files", "finish"}
  /\ driver_open' = FALSE
  /\ UNCHANGED cat_outcomes
  /\ end_run(cat_outcomes, "interrupt")
  /\ UNCHANGED <<f_run, prev_clean, remote, log_file, master_download_log,
                 initial_log_size, f_cat, f_links, loaded_log, http_downloads,
                 log_writes>>
  /\ UNCHANGED notFetch

\* the orchestrator's timeout kills the subprocess: nothing more is run
FetcherKilled ==
  /\ f_pc \in {"category", "files", "finish"}
  /\ f_exit' = -9
  /\ f_pc' = "exited"
  /\ UNCHANGED <<f_run, prev_clean, remote, log_file, master_download_log,
                 initial_log_size, f_cat, f_links, driver_open, cat_outcomes,
                 loaded_log, http_downloads, log_writes>>
  /\ UNCHANGED notFetch

\* the run that has ended met no error of any kind
clean_run ==
  /\ f_exit = 0
  /\ \A i \in DOMAIN cat_outcomes : cat_outcomes[i] = "ok"
  /\ \A i \in DOMAIN http_downloads : http_downloads[i][2]

\* the fetcher is started again, with the log file as the last run left it
RunAgain ==
  /\ f_pc = "exited"
  /\ f_run < MaxRuns
  /\ f_pc' = "idle"
  /\ master_download_log' = {}
  /\ initial_log_size' = 0
  /\ f_cat' = 1
  /\ f_links' = <<>>
  /\ driver_open' = FALSE
  /\ cat_outcomes' = NoCategoryOutcome
  /\ f_exit' = Running
  /\ loaded_log' = {}
  /\ http_downloads' = <<>>
  /\ log_writes' = <<>>
  /\ prev_clean' = clean_run
  /\ UNCHANGED <<f_run, remote, log_file>>
  /\ UNCHANGED notFetch

FetchNext ==
  \/ StartFetcher
  \/ OpenCategory
  \/ VisitLink
  \/ CloseCategory
  \/ FinishFetcher
  \/ FetcherInterrupt
  \/ FetcherKilled
  \/ RunAgain

(***************************************************************************)
(* The processing state and its file                                        *)
(***************************************************************************)
\* the phases _update_month_state is called with, and two of its statuses
Phases == {"download", "parsing", "validation", "complete"}
Statuses == {"started", "failed"}

\* what the write of _save_processing_state can give: the file written, open()
\* raising (the file is left as it was), or the write raising after open()
\* emptied the file; the except clause logs either error
StateWriteOutcomes == {"written", "open_error", "write_error"}

\* processing_state.json after _save_processing_state
write_state_file(file, state, io) ==
  IF io = "written" THEN save_processing_state(state)
  ELSE IF io = "open_error" THEN file
  ELSE CorruptStateFile

NoCall == [month |-> "", phase |-> "", status |-> "", before |-> EmptyDict,
           written |-> FALSE]

KeepInit ==
  /\ s_pc = "load"
  /\ s_file = NoStateFile
  /\ s_state = EmptyDict
  /\ s_updates = 0
  /\ s_last = NoCall

\* __init__: _load_processing_state on whatever file is there
LoadProcessingState ==
  /\ s_pc = "load"
  /\ \E file \in StateFiles :
       /\ s_file' = file
       /\ s_state' = load_processing_state(file)
  /\ s_pc' = "update"
  /\ UNCHANGED <<s_updates, s_last>>
  /\ UNCHANGED notKeep

\* one call of _update_month_state
UpdateMonthStateCall ==
  /\ s_pc = "update"
  /\ s_updates < MaxUpdates
  /\ \E month \in Months, phase \in Phases, status \in Statuses,
        io \in StateWriteOutcomes :
       /\ s_state' = update_month_state(s_state, month, phase, status)
       /\ s_file' = write_state_file(s_file, s_state', io)
       /\ s_last' = [month |-> month, phase |-> phase, status |-> status,
                     before |-> s_state, written |-> io = "written"]
  /\ s_updates' = s_updates + 1
  /\ UNCHANGED s_pc
  /\ UNCHANGED notKeep

KeepNext ==
  \/ LoadProcessingState
  \/ UpdateMonthStateCall

(***************************************************************************)
(* The output validations on one parser output folder                       *)
(***************************************************************************)
\* what a parser output folder can hold: no data CSV or one of some shape,
\* metadata files, ZIP files; listing the folder can raise
Folders ==
  [listing_raises : BOOLEAN, csv : CsvShapes \cup {<<>>},
   meta_files : {0, 1}, zip_files : {0, 1}]

ValidateInit ==
  /\ v_pc = "folder"
  /\ v_folder = <<>>
  /\ v_output = <<>>
  /\ v_month = <<>>

\* some parser output folder
ChooseFolder ==
  /\ v_pc = "folder"
  /\ \E f \in Folders :
       v_folder' = [listing_raises |-> f.listing_raises, csv |-> f.csv,
                    csv_files |-> IF f.csv = <<>> THEN <<>>
                                  ELSE <<csv_file_of(f.csv)>>,
                    meta_files |-> f.meta_files, zip_files |-> f.zip_files]
  /\ v_pc' = "validate_output"
  /\ UNCHANGED <<v_output, v_month>>
  /\ UNCHANGED notValidate

\* the extractor's validate_output on the data CSV of the folder
RunValidateOutput ==
  /\ v_pc = "validate_output"
  /\ v_folder.csv_files # <<>>
  /\ v_output' = <<validate_output(v_folder.csv_files[1])>>
  /\ v_pc' = "validate_month_output"
  /\ UNCHANGED <<v_folder, v_month>>
  /\ UNCHANGED notValidate

\* no data CSV: the extractor wrote nothing to validate
SkipValidateOutput ==
  /\ v_pc = "validate_output"
  /\ v_folder.csv_files = <<>>
  /\ v_pc' = "validate_month_output"
  /\ UNCHANGED <<v_folder, v_output, v_month>>
  /\ UNCHANGED notValidate

\* the orchestrator's validate_month_output on the folder
RunValidateMonthOutput ==
  /\ v_pc = "validate_month_output"
  /\ v_month' = <<validate_month_output(v_folder)>>
  /\ v_pc' = "done"
  /\ UNCHANGED <<v_folder, v_output>>
  /\ UNCHANGED notValidate

ValidateNext ==
  \/ ChooseFolder
  \/ RunValidateOutput
  \/ SkipValidateOutput
  \/ RunValidateMonthOutput

(***************************************************************************)
(* Specifications                                                           *)
(***************************************************************************)
Init ==
  GridInit /\ ExtractInit /\ OrchInit /\ FetchInit /\ ValidateInit /\ KeepInit

\* coordinate extraction on one sheet
SpecGrid == Init /\ [][GridNext]_vars

\* one run of the extractor
SpecExtract == Init /\ [][ExtractNext]_vars
Spec == Init /\ [][Next]_vars
SpecFetch == Init /\ [][FetchNext]_vars

\* the output validations on one folder
SpecValidate == Init /\ [][ValidateNext]_vars

\* updates of the processing state
SpecKeep == Init /\ [][KeepNext]_vars

(***************************************************************************)
(* Properties of the coordinate extraction                                  *)
(***************************************************************************)
\* the cell at (row, col), 0-based, or NaN where the grid has no such cell
CellOrNaN(rows, row, col) ==
  IF row < Len(rows) /\ col < Len(rows[row + 1]) THEN rows[row + 1][col + 1]
  ELSE NaN

\* null, empty or whitespace-only, said without the formatter
IsEmptyCell(value) ==
  \/ value.t \in {"nan", "None"}
  \/ /\ value.t = "str"
     /\ \A i \in 0..(Len(value.s) - 1) : IsSpace(CharAt(value.s, i))

\* the formatted value of the candidate at base_row + offset, column index 6
CandidateValue(rows, base_row, offset) ==
  preserve_number_formatting(CellOrNaN(rows, base_row + offset, 6))

BalanceCode(stype, key) == "JTMD." \o stype \o ".BAL." \o key \o ".M"

\* C2: for every grid, every balance category and both instrument types,
\* find_balance_in_category returns the formatted value of the first
\* candidate row, in the order base_row+0, +1, +2 at column index 6, whose
\* formatted value is non-empty (and nothing when there is none); rows after
\* that first non-empty candidate have no say in the result.
C2_FirstNonEmptyCandidateWins ==
  g_pc = "find_balance_in_category" =>
    \A i \in 1..Len(category_structure) :
      LET key == category_structure[i].key
          base == category_structure[i].base_row
          hits == {o \in 0..2 : CandidateValue(data_rows, base, o) # ""}
      IN  IF hits = {}
          THEN balance_results[key] = None
          ELSE LET first == CHOOSE o \in hits : \A p \in hits : o <= p
               IN  balance_results[key] =
                     <<BalanceCode(sheet_type, key),
                       CandidateValue(data_rows, base, first)>>

\* C2 witness: a category whose +0 candidate is empty, whose +1 candidate is
\* non-empty and whose +2 candidate holds another non-empty value; the +1
\* value is returned.
C2_Witness ==
  /\ g_pc = "find_balance_in_category"
  /\ \E i \in 1..Len(category_structure) :
       LET key == category_structure[i].key
           base == category_structure[i].base_row
       IN  /\ CandidateValue(data_rows, base, 0) = ""
           /\ CandidateValue(data_rows, base, 1) # ""
           /\ CandidateValue(data_rows, base, 2) # ""
           /\ CandidateValue(data_rows, base, 2) # CandidateValue(data_rows, base, 1)
           /\ balance_results[key][2] = CandidateValue(data_rows, base, 1)

\* C3: when the three candidate rows of a balance category are all empty
\* (null, empty or whitespace-only) the category's balance code is absent
\* from the mapping of extract_dynamic_balance_coordinates and from the
\* record of extract_from_adaptive_coordinates, and that record maps no code
\* to the empty string.
C3_EmptyCandidatesOmitted ==
  /\ g_pc = "extract_dynamic_balance_coordinates" =>
       \A i \in 1..Len(category_structure) :
         (\A o \in 0..2 :
            IsEmptyCell(CellOrNaN(data_rows, category_structure[i].base_row + o, 6)))
         => \A st \in SheetTypes :
              BalanceCode(st, category_structure[i].key) \notin DOMAIN dynamic_data
  /\ g_pc = "extract_from_adaptive_coordinates" =>
       /\ \A code \in DOMAIN adaptive_data : adaptive_data[code] # ""
       /\ \A i \in 1..Len(category_structure) :
            (\A o \in 0..2 :
               IsEmptyCell(CellOrNaN(data_rows, category_structure[i].base_row + o, 6)))
            => \A st \in SheetTypes :
                 BalanceCode(st, category_structure[i].key) \notin DOMAIN adaptive_data

\* C3 witness: a full-size sheet was extracted whose candidate rows of some
\* category hold a null, an empty string and a whitespace-only string; the
\* record has sales values but not that balance code.
C3_Witness ==
  /\ g_pc = "extract_from_adaptive_coordinates"
  /\ Len(data_rows) = MaxRows
  /\ adaptive_data # EmptyDict
  /\ \E i \in 1..Len(category_structure) :
       LET base == category_structure[i].base_row
       IN  /\ {CellOrNaN(data_rows, base + o, 6) : o \in 0..2}
                = {NaN, StrCell(""), StrCell("  ")}
           /\ BalanceCode(sheet_type, category_structure[i].key)
                \notin DOMAIN adaptive_data

\* the keys of the three static tables
MappingKeys == {ColumnCodes[i] : i \in 1..Len(ColumnCodes)}
FixedKeys == {fixed_mappings[i].code : i \in 1..Len(fixed_mappings)}
BalanceKeys ==
  {BalanceCode(st, CategoryKeys[i]) : st \in SheetTypes, i \in 1..Len(CategoryKeys)}

\* the fixed-mapping entries of one instrument type: its sales and purchases
\* codes
FixedEntries ==
  [stype \in SheetTypes |->
     {i \in 1..Len(fixed_mappings) :
        \E j \in 1..Len(CategoryKeys), side \in {".SAL.", ".PURCH."} :
          fixed_mappings[i].code =
            "JTMD." \o stype \o side \o CategoryKeys[j] \o ".M"}]

FixedOfType(stype) == FixedEntries[stype]

\* the formatted value of the cell an entry of the fixed mappings names
FixedValue(rows, i) ==
  preserve_number_formatting(
    CellOrNaN(rows, fixed_mappings[i].row, fixed_mappings[i].col))

\* C25: the column mapping has 84 distinct codes, every fixed-mapping key and
\* every balance code built from the category structure is one of them, the
\* fixed and the balance codes are disjoint, every code the extraction steps
\* emit is a key of the column mapping, and the combined mapping holds every
\* fixed value as extract_fixed_coordinates gave it
C25_EmittedCodesAreMappedColumns ==
  /\ Len(column_mapping) = 84
  /\ Cardinality(MappingKeys) = 84
  /\ FixedKeys \subseteq MappingKeys
  /\ BalanceKeys \subseteq MappingKeys
  /\ FixedKeys \cap BalanceKeys = {}
  /\ DOMAIN fixed_data \subseteq FixedKeys
  /\ DOMAIN dynamic_data \subseteq BalanceKeys
  /\ \A k \in DOMAIN balance_results :
       balance_results[k] # None => balance_results[k][1] \in BalanceKeys
  /\ DOMAIN adaptive_data \subseteq MappingKeys
  /\ g_pc = "extract_from_adaptive_coordinates" =>
       LET fixed == extract_fixed_coordinates(data_rows, sheet_type)
       IN  /\ DOMAIN fixed \subseteq DOMAIN adaptive_data
           /\ \A k \in DOMAIN fixed : adaptive_data[k] = fixed[k]
           /\ \A k \in DOMAIN adaptive_data \ DOMAIN fixed : k \in BalanceKeys

\* a full sheet gave sales values and balances whose values differ from the
\* sales values of the same categories
C25_Witness ==
  /\ g_pc = "extract_from_adaptive_coordinates"
  /\ Len(data_rows) = MaxRows
  /\ \E i \in 1..Len(CategoryKeys) :
       LET sales == "JTMD." \o sheet_type \o ".SAL." \o CategoryKeys[i] \o ".M"
           balance == BalanceCode(sheet_type, CategoryKeys[i])
       IN  /\ sales \in DOMAIN adaptive_data
           /\ balance \in DOMAIN adaptive_data
           /\ adaptive_data[sales] # adaptive_data[balance]

\* C26: for instrument type T extract_fixed_coordinates returns the mapping
\* whose keys are the codes, among the 28 sales and purchases codes of T,
\* whose cell exists in the grid and is non-empty after formatting, each
\* with the formatted value of its cell; no code of the other type is a key
C26_FixedCoordinatesOfTheType ==
  /\ \A st \in SheetTypes : Cardinality(FixedOfType(st)) = 28
  /\ g_pc = "extract_fixed_coordinates" =>
       /\ DOMAIN fixed_data =
            {fixed_mappings[i].code :
               i \in {j \in FixedOfType(sheet_type) : FixedValue(data_rows, j) # ""}}
       /\ \A i \in FixedOfType(sheet_type) :
            fixed_mappings[i].code \in DOMAIN fixed_data =>
              fixed_data[fixed_mappings[i].code] = FixedValue(data_rows, i)
       /\ \A st \in SheetTypes \ {sheet_type} : \A i \in FixedOfType(st) :
            fixed_mappings[i].code \notin DOMAIN fixed_data

\* a REIT sheet whose column E holds values in some rows and blanks in
\* others: some but not all of the 28 codes are keys
C26_Witness ==
  /\ g_pc = "extract_fixed_coordinates"
  /\ sheet_type = "REIT"
  /\ Len(data_rows) = MaxRows
  /\ fixed_data # EmptyDict
  /\ Cardinality(DOMAIN fixed_data) < 28
  /\ \E i \in FixedOfType("REIT") :
       /\ CellOrNaN(data_rows, fixed_mappings[i].row, fixed_mappings[i].col)
            = StrCell(" ")
       /\ fixed_mappings[i].code \notin DOMAIN fixed_data
  /\ \E i \in FixedOfType("ETF") :
       FixedValue(data_rows, i) # ""

\* the first candidate of a category, in list order, with a value
FirstHit(rows, base_row) ==
  LET hits == {o \in 0..2 : CandidateValue(rows, base_row, o) # ""}
  IN  IF hits = {} THEN None ELSE <<CHOOSE o \in hits : \A q \in hits : o <= q>>

\* the mapping of a grid when a cell outside the grid counts as an empty cell
MappingOfGrid(rows, stype) ==
  LET found == {i \in FixedOfType(stype) : FixedValue(rows, i) # ""}
      hit == {i \in 1..Len(category_structure) :
                FirstHit(rows, category_structure[i].base_row) # None}
      keys == {fixed_mappings[i].code : i \in found}
              \cup {BalanceCode(stype, category_structure[i].key) : i \in hit}
  IN  [k \in keys |->
         IF k \in FixedKeys
         THEN FixedValue(rows, CHOOSE i \in found : fixed_mappings[i].code = k)
         ELSE LET i == CHOOSE j \in hit :
                         BalanceCode(stype, category_structure[j].key) = k
              IN  CandidateValue(rows, category_structure[i].base_row,
                                 FirstHit(rows, category_structure[i].base_row)[1])]

\* C27: for a grid of any size, the empty one included,
\* extract_from_adaptive_coordinates returns the mapping in which a
\* coordinate outside the grid counts as not found and every coordinate
\* inside the grid is read, also those that come after one that is outside
C27_OutsideTheGridIsNotFound ==
  g_pc = "extract_from_adaptive_coordinates" =>
    /\ adaptive_data = MappingOfGrid(data_rows, sheet_type)
    /\ data_rows = <<>> => adaptive_data = EmptyDict

\* a grid of 26 rows: the sales coordinates from row 27 on are outside, the
\* purchases coordinate at row 25, which comes after them in the table, was
\* read, and of the candidates 24, 25, 26 of a category the second was taken
C27_Witness ==
  /\ g_pc = "extract_from_adaptive_coordinates"
  /\ Len(data_rows) = 26
  /\ sheet_type = "ETF"
  /\ "JTMD.ETF.SAL.INDIV.M" \notin DOMAIN adaptive_data
  /\ "JTMD.ETF.PURCH.INST.M" \in DOMAIN adaptive_data
  /\ CandidateValue(data_rows, 24, 0) = ""
  /\ "JTMD.ETF.BAL.INST.M" \in DOMAIN adaptive_data
  /\ "JTMD.ETF.BAL.INDIV.M" \notin DOMAIN adaptive_data

(***************************************************************************)
(* Properties of an extractor run                                           *)
(***************************************************************************)
\* the files of the run that were read and gave at least one field
ProcessedFiles ==
  {f \in DOMAIN file_log : file_log[f].kind = "read" /\ file_log[f].data # EmptyDict}

\* C1: whatever the order in which process_all_files visits the files, the
\* record it returns for a period holds the fields of every successfully
\* processed file of that period; files of another period in between lose
\* nothing.
C1_EveryFileOfPeriodMerged ==
  x_pc \in {"collected", "csv"} =>
    \A f \in ProcessedFiles :
      /\ file_log[f].period \in DOMAIN all_data
      /\ \A code \in DOMAIN file_log[f].data :
           code \in DOMAIN all_data[file_log[f].period]

\* the instrument types and metrics in the order of the output columns
ColumnTypes == <<"ETF", "REIT">>
ColumnMetrics == <<"BAL", "SAL", "PURCH">>

\* what column j (1..84) of a data row must hold, read off the grid of the
\* file of that column's instrument type: the balance is the first non-empty
\* candidate of column index 6, sales sit in the base row and purchases in
\* the row below it, both at column index 4
ExpectedCell(rows, j) ==
  LET metric == ColumnMetrics[(((j - 1) % 42) \div 14) + 1]
      base == category_structure[((j - 1) % 14) + 1].base_row
      hits == {o \in 0..2 : CandidateValue(rows, base, o) # ""}
  IN  CASE metric = "BAL" ->
             IF hits = {} THEN ""
             ELSE CandidateValue(rows, base,
                                 CHOOSE o \in hits : \A q \in hits : o <= q)
        [] metric = "SAL" -> preserve_number_formatting(CellOrNaN(rows, base, 4))
        [] metric = "PURCH" ->
             preserve_number_formatting(CellOrNaN(rows, base + 1, 4))

ExpectedCode(j) ==
  "JTMD." \o ColumnTypes[((j - 1) \div 42) + 1] \o "."
    \o ColumnMetrics[(((j - 1) % 42) \div 14) + 1] \o "."
    \o category_structure[((j - 1) % 14) + 1].key \o ".M"

\* the input folder holds exactly etf_m2506.xls and reit_m2506.xls, both
\* read with at least one non-empty mapped cell
JuneFolder ==
  /\ {excel_files[i] : i \in 1..Len(excel_files)} = {"etf_m2506.xls", "reit_m2506.xls"}
  /\ ProcessedFiles = {"etf_m2506.xls", "reit_m2506.xls"}

\* C4: etf_m2506.xls and reit_m2506.xls, in either processing order, give
\* exactly one data row, for period 2025-06, whose 42 ETF columns hold the
\* ETF file's values and whose 42 REIT columns hold the REIT file's values,
\* with an empty entry exactly where the grid has no non-empty cell.
C4_JuneEndToEnd ==
  (x_pc = "csv" /\ JuneFolder) =>
    /\ Len(all_rows) = 3
    /\ Len(all_rows[1]) = 85 /\ Len(all_rows[3]) = 85
    /\ all_rows[3][1] = "2025-06"
    /\ \A j \in 1..84 :
         LET file == IF j <= 42 THEN "etf_m2506.xls" ELSE "reit_m2506.xls"
         IN  /\ all_rows[1][j + 1] = ExpectedCode(j)
             /\ all_rows[3][j + 1] = ExpectedCell(FileGrids[file_log[file].grid], j)

\* C4 witness: the REIT file was visited first, the two files hold different
\* sheets, and the row has values and empty entries on both sides.
C4_Witness ==
  /\ x_pc = "csv" /\ JuneFolder
  /\ excel_files = <<"reit_m2506.xls", "etf_m2506.xls">>
  /\ file_log["etf_m2506.xls"].grid # file_log["reit_m2506.xls"].grid
  /\ \E j \in 1..42 : all_rows[3][j + 1] = ""
  /\ \E j \in 1..42 : all_rows[3][j + 1] = "1,234"
  /\ \E j \in 43..84 : all_rows[3][j + 1] = "78.0"
  /\ \E j \in 43..84 : all_rows[3][j + 1] = ""

(***************************************************************************)
(* Properties of an orchestrator run                                        *)
(***************************************************************************)
\* the months process_single_month was called for and returned
MonthsRun == {calls[i][1] : i \in DOMAIN calls}

\* what the latest call for month m returned
LastReturn(m) ==
  LET last == CHOOSE i \in DOMAIN calls :
                /\ calls[i][1] = m
                /\ \A j \in DOMAIN calls : calls[j][1] = m => j <= i
  IN  calls[last][2]

\* the multi-month run went through its whole, non-empty list and exited
AllMonthsProcessed ==
  /\ o_pc = "exited"
  /\ args.mode = "all"
  /\ ~interrupted
  /\ Len(calls) >= 1
  /\ Len(calls) = Len(target_months)

\* C5: when the orchestrator has processed all configured months, it exits
\* with 0 if every month succeeded, with 2 if some but not all months
\* succeeded, and with 1 if no month succeeded (a month listed twice counts
\* by its latest call)
C5_ExitCodeOfAllMonths ==
  AllMonthsProcessed =>
    exit_code = IF \A m \in MonthsRun : LastReturn(m) THEN 0
                ELSE IF \E m \in MonthsRun : LastReturn(m) THEN 2
                ELSE 1

\* a run of two months, the first failed and the second succeeded: exit 2
C5_Witness ==
  /\ AllMonthsProcessed
  /\ calls = <<(<<"2025-06", FALSE>>), (<<"2025-07", TRUE>>)>>
  /\ exit_code = 2

\* C6: a run that a KeyboardInterrupt reached while it was processing
\* months, in multi-month mode or in --month mode, exits with code 130
C6_InterruptExits130 ==
  (o_pc = "exited" /\ interrupted) => exit_code = 130

\* the configuration the run works with is in error
ConfigurationError ==
  \/ ~download_script_exists
  \/ ~parser_script_exists
  \/ target_months = <<>>

\* C7: with a required script missing or the target-month list empty, in
\* every run mode no phase is started, no subprocess is launched and no
\* phase state is recorded
C7_ConfigurationErrorIsFatal ==
  (o_pc # "main" /\ args.mode \in {"all", "month"} /\ ConfigurationError) =>
    /\ phase_log = <<>>
    /\ writes = {}
    /\ launches = 0

\* the phase whose retry loop ran last in this call, and its retry count
LastLoopPhase ==
  IF \E i \in DOMAIN phase_log : phase_log[i] = "extraction"
  THEN "parsing" ELSE "download"
LastLoopRetries ==
  IF LastLoopPhase = "parsing" THEN parse_retries ELSE download_retries

\* process_single_month has returned after a retry loop in which every
\* attempt failed
RetriesExhausted ==
  /\ o_pc = "month_done"
  /\ launches = LastLoopRetries
  /\ failures = LastLoopRetries

\* C8: when every attempt of a phase's subprocess failed until the retry
\* count was used up, the phase is recorded 'failed', process_single_month
\* returned False for the month, and the call wrote no 'complete: success'
C8_ExhaustedRetriesFailThePhase ==
  RetriesExhausted =>
    /\ processing_state[target_month][LastLoopPhase].status = "failed"
    /\ month_ok = FALSE
    /\ calls[Len(calls)] = <<target_month, FALSE>>
    /\ <<"complete", "success">> \notin writes

\* the extractor failed twice with two attempts configured, after a
\* download that succeeded
C8_Witness ==
  /\ RetriesExhausted
  /\ LastLoopPhase = "parsing"
  /\ parse_retries = 2
  /\ outcomes = <<"download_ok", "staged", "extract_failed">>

\* C9: a fetcher run in which a browser error aborted a category counts as
\* a failed download attempt of the orchestrator
C9_BrowserErrorFailsTheAttempt ==
  (o_pc \in {"download", "download_done"} /\ last_outcome.aborted # {}) =>
    (~retry_ok /\ failures >= 1)

\* the phases of the pipeline, in order
PhaseOrder == <<"download", "relocation", "extraction", "validation">>

\* the phases a finished call ran and the value it returned, as functions
\* of what the environment gave its phases and of nothing else
ExpectedPhases(given) ==
  IF given = <<"download_failed">> THEN SubSeq(PhaseOrder, 1, 1)
  ELSE IF given \in {<<"download_ok", "none">>, <<"download_ok", "mkdir_error">>}
  THEN SubSeq(PhaseOrder, 1, 2)
  ELSE IF Len(given) = 3 THEN SubSeq(PhaseOrder, 1, 3)
  ELSE PhaseOrder
ExpectedReturn(given) ==
  /\ Len(given) = 4
  /\ SubSeq(given, 1, 3) = <<"download_ok", "staged", "extract_ok">>

\* C10: the phases process_single_month runs and the value it returns are
\* determined by the outcomes of its subprocesses and file lookups alone,
\* whatever processing_state.json held when the run began; so two runs
\* that differ only in that file run the same phases and return the same
C10_StateNeverGatesExecution ==
  o_pc = "month_done" =>
    /\ phase_log = ExpectedPhases(outcomes)
    /\ month_ok = ExpectedReturn(outcomes)

\* 2025-06 was complete/success in the state file; its first call in this
\* run downloaded and extracted again, and failed
C10_Witness ==
  /\ o_pc = "month_done"
  /\ calls = <<(<<"2025-06", FALSE>>)>>
  /\ "complete" \in DOMAIN processing_state["2025-06"]
  /\ processing_state["2025-06"]["complete"].status = "success"
  /\ phase_log = <<"download", "relocation", "extraction">>

\* the call has returned and its validation found issues or raised
ValidationDidNotPass ==
  /\ o_pc = "month_done"
  /\ validation_enabled
  /\ Len(outcomes) = 4
  /\ outcomes[4] \in {"failed", "error"}

\* C11: with validation enabled, when validate_month_output reports issues
\* (or raises) the 'validation' phase is recorded 'failed' (or 'error'), and
\* process_single_month still records 'complete: success' and returns True
C11_ValidationFailureIsNotFatal ==
  ValidationDidNotPass =>
    /\ processing_state[target_month]["validation"].status = outcomes[4]
    /\ "complete" \in DOMAIN processing_state[target_month]
    /\ processing_state[target_month]["complete"].status = "success"
    /\ <<"complete", "success">> \in writes
    /\ month_ok = TRUE
    /\ calls[Len(calls)] = <<target_month, TRUE>>

\* a month whose validation was recorded 'failed' has returned True
C11_Witness ==
  /\ ValidationDidNotPass
  /\ outcomes[4] = "failed"
  /\ processing_state[target_month]["validation"].status = "failed"
  /\ month_ok = TRUE

\* the months of the calls made so far, in call order
CalledMonths == [i \in DOMAIN calls |-> calls[i][1]]

\* the for loop of process_all_months was entered and has ended without an
\* interrupt
LoopEnded ==
  /\ o_pc \in {"summary", "exited"}
  /\ args.mode = "all"
  /\ ~interrupted
  /\ verify_scripts_exist

\* C12: absent an interrupt, the calls of process_single_month follow the
\* configured list entry by entry, and once the loop has ended there was one
\* call for every entry, in list order, and results holds the value returned
\* for every configured month, whatever earlier months returned
C12_FailedMonthNeverStopsTheRest ==
  /\ (args.mode = "all" /\ o_pc # "main") =>
       /\ Len(calls) <= Len(target_months)
       /\ CalledMonths = SubSeq(target_months, 1, Len(calls))
  /\ LoopEnded =>
       /\ CalledMonths = target_months
       /\ DOMAIN results = {target_months[i] : i \in DOMAIN target_months}
       /\ \A m \in DOMAIN results : results[m] = LastReturn(m)

\* the first of two months failed and the second was run all the same
C12_Witness ==
  /\ LoopEnded
  /\ o_pc = "summary"
  /\ target_months = <<"2025-06", "2025-07">>
  /\ calls = <<(<<"2025-06", FALSE>>), (<<"2025-07", FALSE>>)>>
  /\ results = [m \in Months |-> FALSE]

NoSessionOutsideCategory ==
  (f_pc \in {"category", "finish"} \/ (f_pc = "exited" /\ f_exit # -9))
    => ~driver_open

\* a run that ended with exit code 0 went through every category
EveryCategoryProcessed ==
  (f_pc = "exited" /\ f_exit = 0) =>
    \A i \in DOMAIN cat_outcomes : cat_outcomes[i] \in {"ok", "browser_error"}

\* this step is a browser error that aborts category i
BrowserErrorStep(i) ==
  /\ cat_outcomes[i] = "pending"
  /\ cat_outcomes'[i] = "browser_error"

\* this step is a file download that met a network error
NetworkErrorStep ==
  /\ Len(http_downloads') = Len(http_downloads) + 1
  /\ ~http_downloads'[Len(http_downloads')][2]

\* a browser error of category i ends that category and nothing else
BrowserErrorIsolated ==
  \A i \in DOMAIN cat_outcomes :
    BrowserErrorStep(i) =>
      (/\ ~driver_open'
       /\ f_exit' = Running
       /\ \A j \in DOMAIN cat_outcomes :
            (j # i) => (cat_outcomes'[j] = cat_outcomes[j])
       /\ IF i < Len(Categories)
          THEN f_pc' = "category" /\ f_cat' = i + 1
          ELSE f_pc' = "finish")

\* a network error on one file leaves the loop at the next link
NetworkErrorIsolated ==
  NetworkErrorStep =>
    (/\ f_pc' = "files"
     /\ f_links' = Tail(f_links)
     /\ driver_open'
     /\ cat_outcomes' = cat_outcomes)

\* C14: a browser error in one category ends only that category: its
\* session is quit, the run goes on and the next category, if any, is the
\* next thing processed; a network error on one file leaves the loop over
\* the links running, at the next link
C14_CategoryIsolation ==
  /\ [](NoSessionOutsideCategory /\ EveryCategoryProcessed)
  /\ [][BrowserErrorIsolated /\ NetworkErrorIsolated]_vars

\* the ETFs category was aborted by a browser error; the REITs category
\* was then processed to its end, one of its downloads met a network error
\* and the next file was downloaded all the same
C14_Witness ==
  /\ f_pc = "exited"
  /\ f_exit = 0
  /\ cat_outcomes = <<"browser_error", "ok">>
  /\ http_downloads = <<(<<"reit_m2506.xls", FALSE>>), (<<"reit_m2507.xls", TRUE>>)>>


(***************************************************************************)
(* The output files of the extractor                                        *)
(***************************************************************************)
\* the rows a reader of the data file gets
DataFileRows == [i \in 1..Len(data_file) |-> read_csv_line(data_file[i])]

\* the first cells of the rows of the metadata file after its header row
MetadataFileCodes ==
  [i \in 1..(Len(metadata_file) - 1) |-> read_csv_line(metadata_file[i + 1])[1]]

\* C15: the first header row of the data file is the empty period cell
\* followed by the 84 column codes of column_mapping in the table's order,
\* every data row has 85 cells, the cell under a code holding the period's
\* value for that code, the data rows are one per period in ascending period
\* order, and the metadata file has one row per column code in the same order
C15_OutputFilesFollowTheColumnTable ==
  /\ data_file # <<>> =>
       /\ Len(ColumnCodes) = 84
       /\ DataFileRows[1] = <<"">> \o ColumnCodes
       /\ Len(data_file) - 2 = Cardinality(DOMAIN all_data)
       /\ \A i \in 3..Len(data_file) :
            LET row == DataFileRows[i]
                header == DataFileRows[1]
            IN  /\ Len(row) = 85
                /\ row[1] \in DOMAIN all_data
                /\ \A j \in 1..84 :
                     row[j + 1] = DictGet(all_data[row[1]], header[j + 1], "")
                /\ i > 3 => StrLess(field_at(data_file[i - 1], 0).field, row[1])
  /\ metadata_file # <<>> => MetadataFileCodes = ColumnCodes

\* both files are written, the data file holds two periods, and a row has
\* both a value and an empty cell
C15_Witness ==
  /\ x_pc = "metadata"
  /\ Len(data_file) = 4
  /\ Len(metadata_file) = 85
  /\ \E j \in 2..85 : DataFileRows[3][j] = "1,234"
  /\ \E j \in 2..85 : DataFileRows[3][j] = ""

\* every output file of the run exists
AllOutputsWritten == data_file # <<>> /\ metadata_file # <<>> /\ zip_file # <<>>

\* no output file of the run exists
NoOutputWritten == data_file = <<>> /\ metadata_file = <<>> /\ zip_file = <<>>

\* C16: the extractor exits with code 1 exactly when nothing was extracted,
\* and then no output file is written; whenever it exits with code 0 the data
\* file, the metadata file and the archive are all written, whatever the
\* output validation said
C16_ExitOneExactlyWhenNothingExtracted ==
  x_pc = "exited" =>
    /\ x_exit \in {0, 1}
    /\ x_exit = 1 <=> all_data = EmptyDict
    /\ x_exit = 1 => NoOutputWritten
    /\ x_exit = 0 => AllOutputsWritten

\* C16 as amended: the extractor exits with code 1 exactly when nothing was
\* extracted or writing an output file raised; when nothing was extracted no
\* output file is written; whenever it exits with code 0 all three output
\* files are written, whatever the output validation said
C16_ExitOneWhenNothingExtractedOrWriteFailed ==
  x_pc = "exited" =>
    /\ x_exit \in {0, 1}
    /\ x_exit = 1 <=> (all_data = EmptyDict \/ write_failed)
    /\ all_data = EmptyDict => NoOutputWritten
    /\ x_exit = 0 => AllOutputsWritten

\* a run that exits with code 0 although its own validation failed
C16_Witness ==
  /\ x_pc = "exited"
  /\ x_exit = 0
  /\ validation_passed = <<FALSE>>
  /\ AllOutputsWritten

(***************************************************************************)
(* Properties of the output validations                                     *)
(***************************************************************************)
\* the folder holds everything besides the data CSV that validate_month_output
\* asks for, and can be listed
FolderComplete ==
  ~v_folder.listing_raises /\ v_folder.meta_files = 1 /\ v_folder.zip_files = 1

\* C17: both validations report PASSED for every CSV with 85 columns (1 period
\* + 84 data) and at least one data row, and report FAILED for every CSV whose
\* column count is not 85 (the CSV taken with well-formed periods, in a folder
\* that also holds the metadata file and the archive)
C17_PassedOn85ColumnsWithData ==
  (v_pc = "done" /\ v_folder.csv # <<>>) =>
    LET csv == v_folder.csv
    IN  /\ (csv.columns = 85 /\ csv.data_rows >= 1 /\ csv.period = "2025-06"
            /\ FolderComplete)
             => (v_output = <<TRUE>> /\ v_month = <<"passed">>)
        /\ csv.columns # 85 => (v_output = <<FALSE>> /\ v_month # <<"passed">>)

\* C17 as amended: validate_output reports PASSED exactly for a CSV with 85
\* columns, at least one data row, a period cell starting with YYYY-MM in
\* every data row and at least 60% of its data cells filled;
\* validate_month_output reports PASSED exactly when the folder holds a
\* metadata file and an archive and its data CSV has 85 columns and at least
\* one data row; both report FAILED for every CSV whose column count is not 85
C17_PassedOn85ColumnsWithEnoughData ==
  (v_pc = "done" /\ v_folder.csv # <<>>) =>
    LET csv == v_folder.csv
    IN  /\ v_output = <<TRUE>> <=>
             /\ csv.columns = 85
             /\ csv.data_rows >= 1
             /\ csv.period = "2025-06"
             /\ csv.filled * 100 >= 60 * 84
        /\ v_month = <<"passed">> <=>
             /\ csv.columns = 85
             /\ csv.data_rows >= 1
             /\ FolderComplete
        /\ csv.columns # 85 => (v_output = <<FALSE>> /\ v_month # <<"passed">>)

\* a CSV of 85 columns with 51 of 84 cells filled passes both validations,
\* the periods being well formed and the folder complete
C17_Witness ==
  /\ v_pc = "done"
  /\ v_folder.csv # <<>>
  /\ v_folder.csv.columns = 85
  /\ v_folder.csv.filled = 51
  /\ v_output = <<TRUE>>
  /\ v_month = <<"passed">>

(***************************************************************************)
(* Properties of the retry loop and of the phases of one month              *)
(***************************************************************************)
\* the retry loop at position loop, or just left at position done, with
\* max_retries attempts allowed
RetryLoopWithin(max_retries, loop, done) ==
  /\ launches <= max_retries
  /\ o_pc = loop => (failures = launches /\ launches < max_retries)
  /\ o_pc = done =>
       IF retry_ok
       THEN Succeeded(last_outcome) /\ failures = launches - 1
       ELSE ~Succeeded(last_outcome) /\ failures = launches
            /\ launches = max_retries

\* C18: the subprocess is launched at most max_retries times, the loop stops
\* at the first attempt that exits with code 0 and returns success, it returns
\* failure only after max_retries failed attempts, and the download phase
\* counts against download_retries, the parsing phase against parse_retries
C18_RetryLoopBounds ==
  /\ o_pc \in {"download", "download_done"} =>
       RetryLoopWithin(download_retries, "download", "download_done")
  /\ o_pc \in {"extract", "extract_done"} =>
       RetryLoopWithin(parse_retries, "extract", "extract_done")

\* the download succeeds at its second attempt, under a configuration whose
\* two retry counts differ
C18_Witness ==
  /\ o_pc = "download_done"
  /\ retry_ok
  /\ launches = 2 /\ failures = 1
  /\ download_retries # parse_retries

\* the wait recorded after attempt number k (counted from 1) of a loop of
\* max_retries attempts, the attempt having given last_outcome
WaitAfterAttempt(k, max_retries) ==
  IF Succeeded(last_outcome) \/ k >= max_retries THEN last_wait = 0
  ELSE /\ last_outcome.kind = "exit" => last_wait = 30 * k
       /\ last_outcome.kind = "timeout" => last_wait = 60 * k

\* C19: between attempt k and attempt k + 1 (k counted from 1) the retry loop
\* waits 30 * k seconds after a non-zero exit and 60 * k seconds after a
\* timeout, the wait after a timeout being strictly longer than after a
\* failure at the same attempt; there is no wait after the last attempt
C19_WaitGrowsWithTheAttempt ==
  /\ (o_pc \in {"download", "download_done"} /\ last_outcome # NoOutcome) =>
       WaitAfterAttempt(IF retry_ok THEN attempt + 1 ELSE attempt, download_retries)
  /\ (o_pc \in {"extract", "extract_done"} /\ last_outcome # NoOutcome) =>
       WaitAfterAttempt(IF retry_ok THEN attempt + 1 ELSE attempt, parse_retries)
  /\ \A k \in 0..MaxRetries :
       wait_time(TimeoutExpired, k) > wait_time(Exit(1, {}), k)

\* the second of three download attempts timed out: the loop waits 120 s
C19_Witness ==
  /\ o_pc = "download"
  /\ attempt = 2
  /\ download_retries = 3
  /\ last_outcome = TimeoutExpired
  /\ last_wait = 120

\* the phase has started in the current call of process_single_month
Started(phase) == \E i \in DOMAIN phase_log : phase_log[i] = phase

\* the k-th thing the environment gave the phases of the current call
Given(k) == IF k <= Len(outcomes) THEN outcomes[k] ELSE "pending"

\* C20: within process_single_month the phases start in the order download,
\* file relocation, extraction, validation; relocation and the extractor
\* subprocess never start unless the download phase succeeded, the extractor
\* subprocess is never launched when relocation staged no file of the month,
\* and validation never starts unless parsing succeeded
C20_PhasesRunInOrder ==
  /\ phase_log = SubSeq(PhaseOrder, 1, Len(phase_log))
  /\ Started("relocation") => Given(1) = "download_ok"
  /\ Started("extraction") => (Given(1) = "download_ok" /\ Given(2) = "staged")
  /\ Started("validation") => Given(3) = "extract_ok"

\* a call that went through all four phases
C20_Witness ==
  /\ o_pc = "month_done"
  /\ validation_enabled
  /\ phase_log = PhaseOrder
  /\ SubSeq(outcomes, 1, 3) = <<"download_ok", "staged", "extract_ok">>

(***************************************************************************)
(* Properties of the processing state                                       *)
(***************************************************************************)
\* the (month, phase) entries of a processing state
EntriesOf(state) ==
  {<<m, ph>> : m \in DOMAIN state, ph \in Phases} \cap
  {e \in Months \X Phases : e[1] \in DOMAIN state /\ e[2] \in DOMAIN state[e[1]]}

\* C21: after each _update_month_state call whose write succeeded the file
\* holds the in-memory processing_state, and the call set its own (month,
\* phase) entry and left every other entry of every month as it was
C21_StateFileFollowsMemory ==
  s_last # NoCall =>
    /\ s_last.written =>
         (s_file.exists /\ s_file.valid /\ s_file.content = s_state)
    /\ s_state[s_last.month][s_last.phase] = Entry(s_last.status)
    /\ EntriesOf(s_state) = EntriesOf(s_last.before) \cup {<<s_last.month, s_last.phase>>}
    /\ \A e \in EntriesOf(s_last.before) :
         e # <<s_last.month, s_last.phase>>
           => s_state[e[1]][e[2]] = s_last.before[e[1]][e[2]]

\* the third call rewrote the download entry of 2025-06, which the state
\* held next to two other entries, and its write succeeded
C21_Witness ==
  /\ s_updates = 3
  /\ s_last.written
  /\ s_last.month = "2025-06" /\ s_last.phase = "download"
  /\ <<"2025-06", "download">> \in EntriesOf(s_last.before)
  /\ <<"2025-06", "parsing">> \in EntriesOf(s_last.before)
  /\ <<"2025-07", "download">> \in EntriesOf(s_last.before)
  /\ s_state # s_last.before

(***************************************************************************)
(* Properties of the download log                                           *)
(***************************************************************************)
\* the file names a log file holds
PersistedNames(file) == IF file.exists /\ file.valid THEN file.content ELSE {}

\* the names whose download returned success in this run, up to request n
SavedBefore(n) ==
  {http_downloads[j][1] : j \in {k \in 1..(n - 1) : http_downloads[k][2]}}

LinkPassed ==
  /\ f_pc = "files" /\ f_pc' = "files"
  /\ f_links # <<>> /\ f_links' = Tail(f_links)

\* C23: a request is issued only for a file name that is not in the
\* download log, the log is what was loaded plus the names whose download
\* returned success, a failed download leaves the name out of the log in
\* memory and on disk, and a listed file of the category that is not in the
\* log is requested when the loop passes its link
C23_DownloadsFollowTheLog ==
  /\ [](f_run >= 1 =>
          /\ \A i \in DOMAIN http_downloads :
               /\ http_downloads[i][1] \notin loaded_log
               /\ http_downloads[i][1] \notin SavedBefore(i)
               /\ ~http_downloads[i][2] =>
                    /\ http_downloads[i][1] \notin master_download_log
                    /\ http_downloads[i][1] \notin PersistedNames(log_file)
          /\ f_pc # "idle" =>
               master_download_log =
                 loaded_log \cup SavedBefore(Len(http_downloads) + 1))
  /\ [][LinkPassed =>
          LET name == Head(f_links)
              due == /\ Contains(name, FileFilters[f_cat])
                     /\ name \notin master_download_log
          IN  /\ due => /\ Len(http_downloads') = Len(http_downloads) + 1
                        /\ http_downloads'[Len(http_downloads')][1] = name
              /\ ~due => UNCHANGED <<http_downloads, master_download_log>>]_vars

\* a second run that skipped a logged file, saved one file and failed on
\* another, and ended
C23_Witness ==
  /\ f_pc = "exited" /\ f_run = 2
  /\ loaded_log # {}
  /\ \E i, j \in DOMAIN http_downloads :
       http_downloads[i][2] /\ ~http_downloads[j][2]
  /\ \E i \in DOMAIN remote : \E k \in DOMAIN remote[i] :
       /\ remote[i][k] \in loaded_log
       /\ Contains(remote[i][k], FileFilters[i])

\* C24: when the fetcher process has ended, however it ended, the log file
\* names every file whose download returned success in the run
C24_SavedFilesAreLoggedAtExit ==
  (f_pc = "exited" /\ f_run >= 1) =>
    SavedBefore(Len(http_downloads) + 1) \subseteq PersistedNames(log_file)

(***************************************************************************)
(* Properties of skipped files                                              *)
(***************************************************************************)
\* the positions of the files that gave data
DataFiles ==
  {i \in 1..Len(excel_files) :
     /\ excel_files[i] \in DOMAIN file_log
     /\ file_log[excel_files[i]].data # EmptyDict}

\* the positions of the files that were skipped: the read raised, or there
\* was no 'Value' sheet
SkippedFiles ==
  {i \in 1..Len(excel_files) :
     /\ excel_files[i] \in DOMAIN file_log
     /\ file_log[excel_files[i]].kind \in {"raises", "no_value_sheet"}}

\* the files with data at the end of the list that are of one period, with
\* no file with data of another period among them
LastPeriodFiles ==
  {i \in DataFiles :
     \A j \in DataFiles :
       j >= i => file_log[excel_files[j]].period = file_log[excel_files[i]].period}

\* C28: the pass over a file whose read raises or that has no 'Value' sheet
\* changes nothing of the data collected so far and goes to the next file;
\* every file of the list is passed; and the record of the period of the
\* last files with data holds the fields of each of them, whatever files
\* were skipped between them or after them
C28_SkippedFileChangesNothing ==
  /\ [][(x_pc = "files" /\ file_idx' = file_idx + 1
         /\ file_log'[excel_files[file_idx]].kind \in {"raises", "no_value_sheet"})
        => /\ UNCHANGED <<all_data, current_period, current_period_data>>
           /\ x_pc' = "files"]_vars
  /\ [](x_pc = "collected" =>
          /\ DOMAIN file_log = {excel_files[i] : i \in 1..Len(excel_files)}
          /\ DataFiles # {}
          /\ LET period == file_log[excel_files[CHOOSE i \in LastPeriodFiles : TRUE]].period
                 record == all_data[period]
             IN  /\ DOMAIN record =
                      UNION {DOMAIN file_log[excel_files[i]].data : i \in LastPeriodFiles}
                 /\ \A i \in LastPeriodFiles :
                      \A k \in DOMAIN file_log[excel_files[i]].data :
                        (\A j \in LastPeriodFiles :
                           j > i => k \notin DOMAIN file_log[excel_files[j]].data)
                        => record[k] = file_log[excel_files[i]].data[k])

\* three files were passed: the first gave data, the read of the second
\* raised, the third is of the period of the first and gave data; the record
\* of the period holds the fields of the first and of the third
C28_Witness ==
  /\ x_pc = "collected"
  /\ Len(excel_files) = 3
  /\ DataFiles = {1, 3}
  /\ file_log[excel_files[2]].kind = "raises"
  /\ LastPeriodFiles = {1, 3}
  /\ DOMAIN file_log[excel_files[1]].data \cap DOMAIN file_log[excel_files[3]].data = {}
  /\ DOMAIN all_data = {file_log[excel_files[1]].period}

(***************************************************************************)
(* Properties of the exit code and of the recorded status                   *)
(***************************************************************************)
\* C29: a multi-month run that was not interrupted exits with 0 only if at
\* least one month was processed and every processed month succeeded
C29_ExitZeroNeedsAProcessedMonth ==
  (o_pc = "exited" /\ args.mode = "all" /\ ~interrupted /\ exit_code = 0) =>
    /\ Len(calls) >= 1
    /\ \A i \in DOMAIN calls : calls[i][2]

\* the months process_single_month has returned for in this run
ReturnedMonths == {calls[i][1] : i \in DOMAIN calls}

\* C30: whenever the latest process_single_month of a month returned False,
\* the status recorded for the month's 'complete' phase is not 'success'
C30_CompleteStatusFollowsLatestRun ==
  \A m \in ReturnedMonths :
    (~LastReturn(m) /\ m \in DOMAIN processing_state
       /\ "complete" \in DOMAIN processing_state[m])
    => processing_state[m]["complete"].status # "success"
====
